---- MODULE Spec2Model ----
(***************************************************************************)
(* A model of the culinary API server: the recipe controller and recipe    *)
(* schema hooks, the recipe routes, and the JWT authentication pipeline    *)
(* with the auth controller.                                               *)
(*                                                                         *)
(* One set of variables is shared by several specifications; each          *)
(* specification drives the handlers with its own small input sets:        *)
(*   SpecList    - what the public list and read routes return             *)
(*   SpecRead    - reads of one recipe and its view counter                *)
(*   SpecOwner   - who may change or delete a recipe                       *)
(*   SpecRating  - ratings and the derived fields of a recipe              *)
(*   SpecAuth    - login, account management and the protect middleware    *)
(*   SpecPassword - password change and reset against issued tokens        *)
(*   SpecSignup  - registration, e-mail verification and first login       *)
(*   SpecCategory - the category hierarchy under create, re-parent, delete *)
(*   SpecCategoryDelete - deleting categories that hold recipes/children   *)
(*   SpecDepth   - the depth of a chain of categories                      *)
(*   SpecAccount - account deletion by the user and by the admin           *)
(*   SpecReset   - password resets whose letter may fail to be sent        *)
(*   SpecViews   - concurrent views of a recipe, step by step              *)
(*   SpecRate    - concurrent ratings of a recipe, step by step            *)
(*   SpecCount   - the category counters under writes and the recount      *)
(*   SpecCategoryRace - recipe writes that run while a category is deleted *)
(*   SpecRoles   - role changes asked for by users, moderators and admins  *)
(*                                                                         *)
(* Numbers with one decimal (averageRating) are kept in tenths.            *)
(* Times are abstract clock ticks.                                         *)
(***************************************************************************)
EXTENDS Integers, Sequences, FiniteSets, TLC

VARIABLES
  users,       \* the User collection: id -> document
  recipes,     \* the Recipe collection: id -> document
  categories,  \* the Category collection: id -> document
  nextRecipe,  \* the next fresh recipe id (ObjectIds are never reused)
  now,         \* the clock (Date.now())
  tokens,      \* the JWTs the server has issued so far
  nonce,       \* the number of random tokens drawn so far (crypto.randomBytes)
  mail,        \* the e-mails delivered: verification and reset links
  resp,        \* the last request and its response
  inflight,    \* the requests between two of their awaits: slot -> request
  versions     \* the version key (__v) of each stored recipe

vars == <<users, recipes, categories, nextRecipe, now, tokens, nonce, mail, resp,
         inflight, versions>>

-----------------------------------------------------------------------------
(* Bounds of the model *)

NumRecipes == 2      \* recipe ids 1..NumRecipes may be created
MaxViews == 1        \* a recipe is viewed (and its counter bumped) at most this often
MaxCount == 2        \* |stats.recipeCount| is explored up to this value
MaxClock == 3        \* the clock runs 0..MaxClock
MaxNonce == 2        \* random tokens drawn in one behaviour

UserIds == {"alice", "bob", "carol", "root"}
NoUser == "nobody"
CatIds == {"c1", "c2", "c3"}
NoCat == "nocat"
RecipeIds == 1..NumRecipes

Absent == "absent"   \* a string-valued key the request does not carry
AbsentNum == -1      \* a number-valued key the request does not carry

-----------------------------------------------------------------------------
(* Recipe schema *)

StatusEnum == {"draft", "published", "archived", "pending_review"}
VisibilityEnum == {"public", "private", "friends_only"}

NoRecipe ==
  [exists |-> FALSE, author |-> NoUser, category |-> NoCat,
   status |-> "draft", visibility |-> "public",
   prepTime |-> 0, cookTime |-> 0, totalTime |-> 0,
   ratings |-> <<>>, averageRating |-> 0, totalRatings |-> 0,
   views |-> 0, bookmarks |-> {}]

RECURSIVE SumRatings(_)
SumRatings(rs) ==
  IF rs = <<>> THEN 0 ELSE Head(rs).rating + SumRatings(Tail(rs))

\* Math.round((total / n) * 10), i.e. the average in tenths, halves rounded up
RoundTenths(total, n) == (20 * total + n) \div (2 * n)

PreSaveTotalTime(r) == [r EXCEPT !.totalTime = r.prepTime + r.cookTime]

PreSaveAverageRating(r) ==
  IF Len(r.ratings) > 0
  THEN [r EXCEPT !.averageRating = RoundTenths(SumRatings(r.ratings), Len(r.ratings)),
                 !.totalRatings = Len(r.ratings)]
  ELSE r

\* document.save(): the two pre('save') hooks in order of registration
Save(r) == PreSaveAverageRating(PreSaveTotalTime(r))

RECURSIVE FilterRatings(_, _)
FilterRatings(rs, userId) ==
  IF rs = <<>> THEN <<>>
  ELSE IF Head(rs).user = userId THEN FilterRatings(Tail(rs), userId)
  ELSE <<Head(rs)>> \o FilterRatings(Tail(rs), userId)

AddRating_Accumulate(r, userId, rating) ==
  Save([r EXCEPT !.ratings = Append(r.ratings, [user |-> userId, rating |-> rating])])

AddRating(r, userId, rating) ==
  Save([r EXCEPT !.ratings =
          Append(FilterRatings(r.ratings, userId), [user |-> userId, rating |-> rating])])

IncrementViews(r) == Save([r EXCEPT !.views = r.views + 1])

-----------------------------------------------------------------------------
(* JWTs and the protect middleware *)

NoToken == [sub |-> NoUser, iat |-> -1, exp |-> -1, sig |-> FALSE]

\* JWT_EXPIRES_IN ('7d'), in ticks
JwtTTL == 3

SignToken(userId) == [sub |-> userId, iat |-> now, exp |-> now + JwtTTL, sig |-> TRUE]

\* what a request carries: the Authorization header and the Cookie header
NoCred == [scheme |-> "none", token |-> NoToken, cookie |-> NoToken]
Bearer(t) == [scheme |-> "Bearer", token |-> t, cookie |-> NoToken]
Cookie(t) == [scheme |-> "none", token |-> NoToken, cookie |-> t]

\* server.js registers helmet, rateLimit, compression, cors, json, urlencoded
\* and static; no cookie parser, so req.cookies is undefined
CookiesParsed == FALSE

NoUserDoc ==
  [exists |-> FALSE, role |-> "user", accountStatus |-> "pending",
   isEmailVerified |-> FALSE, password |-> 0, passwordChangedAt |-> -1,
   lockUntil |-> -1, emailVerificationToken |-> 0, emailVerificationExpires |-> -1,
   passwordResetToken |-> 0, passwordResetExpires |-> -1]

\* the isLocked virtual: a lock-until timestamp still in the future
IsLocked(u) == u.lockUntil > now

\* changedPasswordAfter(iat): the password changed at a time after the token was issued
ChangedPasswordAfter(u, iat) == u.passwordChangedAt > iat

Protect_NoLockCheck(cred) ==
  IF cred.scheme # "Bearer" /\ ~CookiesParsed THEN [code |-> 500, user |-> NoUser]
  ELSE LET token == IF cred.scheme = "Bearer" THEN cred.token ELSE cred.cookie IN
    IF token = NoToken THEN [code |-> 401, user |-> NoUser]
    ELSE IF ~token.sig \/ token.exp <= now THEN [code |-> 401, user |-> NoUser]
    ELSE IF ~users[token.sub].exists THEN [code |-> 401, user |-> NoUser]
    ELSE IF users[token.sub].accountStatus # "active" THEN [code |-> 403, user |-> NoUser]
    ELSE IF ChangedPasswordAfter(users[token.sub], token.iat)
      THEN [code |-> 401, user |-> NoUser]
    ELSE [code |-> 200, user |-> token.sub]

Protect_NoPasswordCheck(cred) ==
  IF cred.scheme # "Bearer" /\ ~CookiesParsed THEN [code |-> 500, user |-> NoUser]
  ELSE LET token == IF cred.scheme = "Bearer" THEN cred.token ELSE cred.cookie IN
    IF token = NoToken THEN [code |-> 401, user |-> NoUser]
    ELSE IF ~token.sig \/ token.exp <= now THEN [code |-> 401, user |-> NoUser]
    ELSE IF ~users[token.sub].exists THEN [code |-> 401, user |-> NoUser]
    ELSE IF users[token.sub].accountStatus # "active" THEN [code |-> 403, user |-> NoUser]
    ELSE IF IsLocked(users[token.sub]) THEN [code |-> 423, user |-> NoUser]
    ELSE [code |-> 200, user |-> token.sub]

\* protect: the error code passed to next(), or 200 and the principal (req.user)
Protect(cred) ==
  IF cred.scheme # "Bearer" /\ ~CookiesParsed
    THEN [code |-> 500, user |-> NoUser]      \* TypeError reading req.cookies.jwt
  ELSE LET token == IF cred.scheme = "Bearer" THEN cred.token ELSE cred.cookie IN
    IF token = NoToken THEN [code |-> 401, user |-> NoUser]
    ELSE IF ~token.sig \/ token.exp <= now THEN [code |-> 401, user |-> NoUser]
    ELSE IF ~users[token.sub].exists THEN [code |-> 401, user |-> NoUser]
    ELSE IF users[token.sub].accountStatus # "active" THEN [code |-> 403, user |-> NoUser]
    ELSE IF IsLocked(users[token.sub]) THEN [code |-> 423, user |-> NoUser]
    ELSE IF ChangedPasswordAfter(users[token.sub], token.iat)
      THEN [code |-> 401, user |-> NoUser]
    ELSE [code |-> 200, user |-> token.sub]

CheckOwnership_NoAdminBypass(userId, resource) ==
  IF ~resource.exists THEN 404
  ELSE IF resource.author # userId THEN 403
  ELSE 200

\* checkOwnership(Recipe): 200 stands for next()
CheckOwnership(userId, resource) ==
  IF ~resource.exists THEN 404
  ELSE IF users[userId].role = "admin" THEN 200
  ELSE IF resource.author # userId THEN 403
  ELSE 200

-----------------------------------------------------------------------------
(* Responses *)

\* req.query of a request that carries no query string
NoQuery ==
  [status |-> Absent, visibility |-> Absent, category |-> Absent,
   maxPrepTime |-> AbsentNum, page |-> AbsentNum, limit |-> AbsentNum]

NoResp ==
  [op |-> "none", code |-> 0, cred |-> NoCred, user |-> NoUser, ran |-> FALSE,
   id |-> 0, list |-> <<>>, total |-> 0, tok |-> NoToken, arg |-> 0, prior |-> 0,
   asked |-> Absent, account |-> NoUser, cat |-> NoCat, parent |-> Absent,
   query |-> NoQuery, strict |-> FALSE]

\* the outcome of a handler over the recipe and category collections
Out(code, rs, cs) == [code |-> code, recipes |-> rs, categories |-> cs]
Fail(code) == Out(code, recipes, categories)

-----------------------------------------------------------------------------
(* Category schema and its save hooks *)

MaxLevel == 5

\* a slot of the collection that holds no document; deleted marks an id whose
\* document was removed (ObjectIds are never reused)
NoCategory ==
  [exists |-> FALSE, deleted |-> FALSE, slug |-> Absent, parent |-> NoCat,
   children |-> <<>>, level |-> 0, path |-> <<>>, recipeCount |-> 0]

\* the document new Category(body) builds: schema defaults for what the body
\* leaves out (parent null, children [], level 0, no path).  A path is kept
\* as the sequence of the slugs it joins with "/"; <<>> is no path.
NewCategory(body) ==
  [NoCategory EXCEPT
     !.exists = TRUE,
     !.slug = body.slug,
     !.parent = IF body.parent = Absent THEN NoCat ELSE body.parent]

\* the schema validators save() runs before any pre('save') hook
CategoryValid(doc) ==
  /\ doc.slug # Absent
  /\ doc.level \in 0..MaxLevel
  /\ doc.recipeCount >= 0

\* pre('save'): path and level, only when parent is modified; a path that
\* was set from a default is not
PreSavePathLevel(cs, doc, parentModified) ==
  IF ~parentModified THEN doc
  ELSE IF doc.parent # NoCat
    THEN IF doc.parent \in DOMAIN cs /\ cs[doc.parent].exists
         THEN LET p == cs[doc.parent] IN
              [doc EXCEPT !.level = p.level + 1,
                          !.path = IF p.path # <<>> THEN Append(p.path, doc.slug)
                                   ELSE <<doc.slug>>]
         ELSE doc
    ELSE [doc EXCEPT !.level = 0, !.path = <<doc.slug>>]

\* $addToSet and $pull on an array
AddToSet(s, x) == IF \E i \in 1..Len(s) : s[i] = x THEN s ELSE Append(s, x)
Pull(s, x) == SelectSeq(s, LAMBDA y : y # x)

\* post('save'): the parent's children gain the saved document's id
PostSaveChildren(cs, id) ==
  LET p == cs[id].parent IN
  IF p # NoCat /\ p \in DOMAIN cs /\ cs[p].exists
  THEN [cs EXCEPT ![p].children = AddToSet(@, id)]
  ELSE cs

\* doc.save() of the document with this id: validation, the pre hooks, the
\* write, the post hook
SaveCategory(cs, id, doc, parentModified) ==
  IF ~CategoryValid(doc) THEN [ok |-> FALSE, categories |-> cs]
  ELSE [ok |-> TRUE,
        categories |->
          PostSaveChildren(
            [cs EXCEPT ![id] = PreSavePathLevel(cs, doc, parentModified)], id)]

\* a root category as POST /api/categories stores it
SeedCategory(slug) == NewCategory([slug |-> slug, parent |-> Absent])

-----------------------------------------------------------------------------

(* Recipe routes: request validation *)

\* validateRecipeCreation: the fields of the body it looks at
ValidateRecipeCreation(body) ==
  /\ body.prepTime >= 1
  /\ body.cookTime >= 0
  /\ body.category # NoCat
  /\ body.visibility \in VisibilityEnum \cup {Absent}

\* validateRating
ValidateRating(rating) == rating \in 1..5

\* validateQuery: page, limit and maxPrepTime, when given, are positive integers
\* (limit at most 50)
ValidateQuery(q) ==
  /\ q.page = AbsentNum \/ q.page >= 1
  /\ q.limit = AbsentNum \/ q.limit \in 1..50
  /\ q.maxPrepTime = AbsentNum \/ q.maxPrepTime >= 1

\* the schema validators of the paths a body may set (Recipe.create, and
\* findByIdAndUpdate with runValidators)
SchemaValid(body) ==
  /\ body.status \in StatusEnum \cup {Absent}
  /\ body.visibility \in VisibilityEnum \cup {Absent}
  /\ body.totalRatings = AbsentNum \/ body.totalRatings >= 0
  /\ body.prepTime >= 1
  /\ body.cookTime >= 0

-----------------------------------------------------------------------------
(* Recipe controller *)

\* Category.findByIdAndUpdate(c, {$inc: {'stats.recipeCount': d}}): no document, no effect
IncRecipeCount(cs, c, d) ==
  IF c \in DOMAIN cs /\ cs[c].exists
  THEN [cs EXCEPT ![c].recipeCount = @ + d]
  ELSE cs

CategoryExists(c) == c \in DOMAIN categories /\ categories[c].exists

\* the document Recipe.create builds from {...req.body, author}: schema defaults
\* for what the body leaves out
NewRecipe(userId, body) ==
  [NoRecipe EXCEPT
     !.exists = TRUE,
     !.author = userId,
     !.category = body.category,
     !.status = IF body.status = Absent THEN "draft" ELSE body.status,
     !.visibility = IF body.visibility = Absent THEN "public" ELSE body.visibility,
     !.prepTime = body.prepTime,
     !.cookTime = body.cookTime,
     !.totalRatings = IF body.totalRatings = AbsentNum THEN 0 ELSE body.totalRatings]

CreateRecipeHandler(userId, body) ==
  IF ~CategoryExists(body.category) THEN Fail(400)
  ELSE IF ~SchemaValid(body) THEN Fail(400)
  ELSE Out(201,
           [recipes EXCEPT ![nextRecipe] = Save(NewRecipe(userId, body))],
           IncRecipeCount(categories, body.category, 1))

\* findByIdAndUpdate(id, req.body): $set of the body's keys; no save hook runs
ApplyUpdate(r, body) ==
  [r EXCEPT
     !.category = body.category,
     !.prepTime = body.prepTime,
     !.cookTime = body.cookTime,
     !.status = IF body.status = Absent THEN @ ELSE body.status,
     !.visibility = IF body.visibility = Absent THEN @ ELSE body.visibility,
     !.totalRatings = IF body.totalRatings = AbsentNum THEN @ ELSE body.totalRatings]

UpdateRecipeHandler(userId, id, body) ==
  LET r == recipes[id]
      moved == body.category # r.category
      cs == IF moved
            THEN IncRecipeCount(IncRecipeCount(categories, r.category, -1),
                                body.category, 1)
            ELSE categories
  IN IF ~r.exists THEN Fail(404)
     ELSE IF r.author # userId /\ users[userId].role # "admin" THEN Fail(403)
     ELSE IF moved /\ ~CategoryExists(body.category) THEN Fail(400)
     ELSE IF ~SchemaValid(body) THEN Out(400, recipes, cs)
     ELSE Out(200, [recipes EXCEPT ![id] = ApplyUpdate(r, body)], cs)

DeleteRecipeHandler_KeepsCount(userId, id) ==
  LET r == recipes[id] IN
  IF ~r.exists THEN Fail(404)
  ELSE IF r.author # userId /\ users[userId].role # "admin" THEN Fail(403)
  ELSE Out(204, [recipes EXCEPT ![id] = NoRecipe], categories)

DeleteRecipeHandler(userId, id) ==
  LET r == recipes[id] IN
  IF ~r.exists THEN Fail(404)
  ELSE IF r.author # userId /\ users[userId].role # "admin" THEN Fail(403)
  ELSE Out(204, [recipes EXCEPT ![id] = NoRecipe],
           IncRecipeCount(categories, r.category, -1))

\* getRecipe; reqUser is req.user, NoUser when no middleware has set it
GetRecipeHandler(reqUser, id) ==
  LET r == recipes[id] IN
  IF ~r.exists THEN Fail(404)
  ELSE IF /\ r.visibility = "private"
          /\ \/ reqUser = NoUser
             \/ (r.author # reqUser /\ users[reqUser].role # "admin")
    THEN Fail(403)
  ELSE IF reqUser = NoUser \/ r.author # reqUser
    THEN Out(200, [recipes EXCEPT ![id] = IncrementViews(r)], categories)
  ELSE Fail(200)

RateRecipeHandler_AuthorMayRate(userId, id, rating) ==
  LET r == recipes[id] IN
  IF ~r.exists THEN Fail(404)
  ELSE Out(200, [recipes EXCEPT ![id] = AddRating(r, userId, rating)], categories)

RateRecipeHandler(userId, id, rating) ==
  LET r == recipes[id] IN
  IF ~r.exists THEN Fail(404)
  ELSE IF r.author = userId THEN Fail(400)
  ELSE Out(200, [recipes EXCEPT ![id] = AddRating(r, userId, rating)], categories)

ToggleBookmarkHandler(userId, id) ==
  LET r == recipes[id]
      marks == IF userId \in r.bookmarks
               THEN r.bookmarks \ {userId}
               ELSE r.bookmarks \cup {userId}
  IN IF ~r.exists THEN Fail(404)
     ELSE Out(200, [recipes EXCEPT ![id] = Save([r EXCEPT !.bookmarks = marks])],
              categories)

-----------------------------------------------------------------------------
(* getAllRecipes: the query *)

NoConds == [k \in {} |-> 0]
Cond(k, op, v) == [x \in {k} |-> [op |-> op, val |-> v]]

\* Query.find(conditions) merges into the query's conditions; a key given again
\* replaces the earlier one
Merge(a, b) ==
  [k \in DOMAIN a \cup DOMAIN b |-> IF k \in DOMAIN b THEN b[k] ELSE a[k]]

\* the paths of recipeSchema a query key may name
SchemaPaths == {"status", "visibility", "category", "prepTime"}

\* queryObj: every query key except page, sort, limit, fields and search
QueryObj(q) ==
  LET a == IF q.status = Absent THEN NoConds ELSE Cond("status", "eq", q.status)
      b == IF q.visibility = Absent THEN NoConds ELSE Cond("visibility", "eq", q.visibility)
      c == IF q.category = Absent THEN NoConds ELSE Cond("category", "eq", q.category)
      d == IF q.maxPrepTime = AbsentNum THEN NoConds
           ELSE Cond("maxPrepTime", "eq", q.maxPrepTime)
  IN Merge(Merge(Merge(a, b), c), d)

ListConditions_PolicyFirst(q, reqUser) ==
  LET policy == IF reqUser = NoUser \/ users[reqUser].role # "admin"
                THEN Merge(Cond("status", "eq", "published"),
                           Cond("visibility", "eq", "public"))
                ELSE NoConds
      prep == IF q.maxPrepTime = AbsentNum THEN NoConds
              ELSE Cond("prepTime", "lte", q.maxPrepTime)
      cat == IF q.category = Absent THEN NoConds ELSE Cond("category", "eq", q.category)
  IN Merge(Merge(Merge(policy, QueryObj(q)), prep), cat)

\* the conditions of the list query, in the order the controller adds them
ListConditions(q, reqUser) ==
  LET policy == IF reqUser = NoUser \/ users[reqUser].role # "admin"
                THEN Merge(Cond("status", "eq", "published"),
                           Cond("visibility", "eq", "public"))
                ELSE NoConds
      prep == IF q.maxPrepTime = AbsentNum THEN NoConds
              ELSE Cond("prepTime", "lte", q.maxPrepTime)
      cat == IF q.category = Absent THEN NoConds ELSE Cond("category", "eq", q.category)
  IN Merge(Merge(Merge(QueryObj(q), policy), prep), cat)

\* one condition on one document; strict is mongoose's strictQuery: a key that
\* is no schema path is dropped when it is on, and matches no document when off
Sat(r, k, c, strict) ==
  IF k \notin SchemaPaths THEN strict
  ELSE CASE k = "status" -> r.status = c.val
         [] k = "visibility" -> r.visibility = c.val
         [] k = "category" -> r.category = c.val
         [] k = "prepTime" ->
              IF c.op = "lte" THEN r.prepTime <= c.val ELSE r.prepTime = c.val

Matching(conds, strict) ==
  {i \in RecipeIds : recipes[i].exists
                     /\ \A k \in DOMAIN conds : Sat(recipes[i], k, conds[k], strict)}

\* sort('-createdAt'): newest first, i.e. by descending id
RECURSIVE NewestFirst(_)
NewestFirst(S) ==
  IF S = {} THEN <<>>
  ELSE LET m == CHOOSE x \in S : \A y \in S : y <= x
       IN <<m>> \o NewestFirst(S \ {m})

\* skip(n).limit(m)
SkipLimit(s, n, m) ==
  SubSeq(s, n + 1, IF n + m < Len(s) THEN n + m ELSE Len(s))

DefaultLimit == 12

GetAllRecipesHandler(reqUser, q, strict) ==
  LET page == IF q.page = AbsentNum \/ q.page = 0 THEN 1 ELSE q.page
      limit == IF q.limit = AbsentNum \/ q.limit = 0 THEN DefaultLimit ELSE q.limit
      found == NewestFirst(Matching(ListConditions(q, reqUser), strict))
  IN [list |-> SkipLimit(found, (page - 1) * limit, limit),
      total |-> Cardinality(Matching(QueryObj(q), strict))]

-----------------------------------------------------------------------------
(* Requests on the recipe routes.  Each action is one request through the   *)
(* route's whole middleware chain.                                         *)

CountsInRange(cs) == \A c \in DOMAIN cs : cs[c].recipeCount \in -MaxCount..MaxCount

Reply(op, cred, pr, code, id) ==
  [NoResp EXCEPT !.op = op, !.code = code, !.cred = cred, !.user = pr.user,
                 !.ran = (pr.code = 200), !.id = id]

\* POST /api/recipes: protect, validateRecipeCreation, createRecipe
CreateRecipe(cred, body) ==
  /\ nextRecipe <= NumRecipes
  /\ LET pr == Protect(cred)
         out == IF pr.code # 200 THEN Fail(pr.code)
                ELSE IF ~ValidateRecipeCreation(body) THEN Fail(400)
                ELSE CreateRecipeHandler(pr.user, body)
     IN /\ CountsInRange(out.categories)
        /\ recipes' = out.recipes
        /\ categories' = out.categories
        /\ nextRecipe' = IF out.code = 201 THEN nextRecipe + 1 ELSE nextRecipe
        /\ resp' = Reply("createRecipe", cred, pr, out.code,
                         IF out.code = 201 THEN nextRecipe ELSE 0)
  /\ UNCHANGED <<users, now, tokens, nonce, mail, inflight, versions>>

\* PATCH /api/recipes/:id: protect, validateObjectId, checkOwnership(Recipe),
\* validateRecipeCreation, updateRecipe
UpdateRecipe(cred, id, body) ==
  /\ LET pr == Protect(cred)
         own == IF pr.code = 200 THEN CheckOwnership(pr.user, recipes[id]) ELSE 0
         out == IF pr.code # 200 THEN Fail(pr.code)
                ELSE IF own # 200 THEN Fail(own)
                ELSE IF ~ValidateRecipeCreation(body) THEN Fail(400)
                ELSE UpdateRecipeHandler(pr.user, id, body)
     IN /\ CountsInRange(out.categories)
        /\ recipes' = out.recipes
        /\ categories' = out.categories
        /\ resp' = Reply("updateRecipe", cred, pr, out.code, id)
  /\ UNCHANGED <<users, nextRecipe, now, tokens, nonce, mail,
                 inflight, versions>>

\* DELETE /api/recipes/:id: protect, validateObjectId, checkOwnership(Recipe),
\* deleteRecipe
DeleteRecipe(cred, id) ==
  /\ LET pr == Protect(cred)
         own == IF pr.code = 200 THEN CheckOwnership(pr.user, recipes[id]) ELSE 0
         out == IF pr.code # 200 THEN Fail(pr.code)
                ELSE IF own # 200 THEN Fail(own)
                ELSE DeleteRecipeHandler(pr.user, id)
     IN /\ CountsInRange(out.categories)
        /\ recipes' = out.recipes
        /\ categories' = out.categories
        /\ resp' = Reply("deleteRecipe", cred, pr, out.code, id)
  /\ UNCHANGED <<users, nextRecipe, now, tokens, nonce, mail,
                 inflight, versions>>

\* the public recipe routes are registered before router.use(protect): nothing
\* sets req.user for them, whatever the request carries
PublicReqUser == NoUser

\* GET /api/recipes: validateQuery, getAllRecipes
GetAllRecipes(q, strict) ==
  /\ LET out == GetAllRecipesHandler(PublicReqUser, q, strict)
     IN resp' = IF ~ValidateQuery(q)
                THEN [NoResp EXCEPT !.op = "getAllRecipes", !.code = 400,
                                    !.user = PublicReqUser, !.ran = TRUE,
                                    !.asked = q.status,
                                    !.query = q, !.strict = strict]
                ELSE [NoResp EXCEPT !.op = "getAllRecipes", !.code = 200,
                                    !.user = PublicReqUser, !.ran = TRUE,
                                    !.asked = q.status,
                                    !.query = q, !.strict = strict,
                                    !.list = out.list, !.total = out.total]
  /\ UNCHANGED <<users, recipes, categories, nextRecipe, now, tokens, nonce, mail,
                 inflight, versions>>

\* GET /api/recipes/:id: validateObjectId, getRecipe
GetRecipe(cred, id) ==
  /\ recipes[id].views < MaxViews
  /\ LET out == GetRecipeHandler(PublicReqUser, id)
     IN /\ recipes' = out.recipes
        /\ resp' = [NoResp EXCEPT !.op = "getRecipe", !.code = out.code,
                                  !.cred = cred,
                                  !.user = PublicReqUser, !.ran = TRUE, !.id = id]
  /\ UNCHANGED <<users, categories, nextRecipe, now, tokens, nonce, mail,
                 inflight, versions>>

\* what the response log keeps of a rating request: the rating the user had
\* on the recipe before it, 0 for none
PriorRating(r, userId) ==
  IF \E i \in 1..Len(r.ratings) : r.ratings[i].user = userId
  THEN r.ratings[CHOOSE i \in 1..Len(r.ratings) : r.ratings[i].user = userId].rating
  ELSE 0

\* POST /api/recipes/:id/rate: protect, validateObjectId, validateRating, rateRecipe
RateRecipe(cred, id, rating) ==
  /\ LET pr == Protect(cred)
         out == IF pr.code # 200 THEN Fail(pr.code)
                ELSE IF ~ValidateRating(rating) THEN Fail(400)
                ELSE RateRecipeHandler(pr.user, id, rating)
     IN /\ recipes' = out.recipes
        /\ resp' = [Reply("rateRecipe", cred, pr, out.code, id) EXCEPT
                      !.arg = rating, !.prior = PriorRating(recipes[id], pr.user)]
  /\ UNCHANGED <<users, categories, nextRecipe, now, tokens, nonce, mail,
                 inflight, versions>>

\* POST /api/recipes/:id/bookmark: protect, validateObjectId, toggleBookmark
ToggleBookmark(cred, id) ==
  /\ LET pr == Protect(cred)
         out == IF pr.code # 200 THEN Fail(pr.code)
                ELSE ToggleBookmarkHandler(pr.user, id)
     IN /\ recipes' = out.recipes
        /\ resp' = Reply("toggleBookmark", cred, pr, out.code, id)
  /\ UNCHANGED <<users, categories, nextRecipe, now, tokens, nonce, mail,
                 inflight, versions>>

-----------------------------------------------------------------------------
(* Requests in flight.  A handler runs up to an await, and other requests  *)
(* run before it goes on; what it loaded meanwhile is its own copy.        *)

Slots == {1, 2}

NoBody ==
  [category |-> NoCat, prepTime |-> 0, cookTime |-> 0,
   status |-> Absent, visibility |-> Absent, totalRatings |-> AbsentNum]

\* stage: "idle" (no request), "loaded" (past its reads), "done" (answered)
NoFlight ==
  [stage |-> "idle", op |-> "none", cred |-> NoCred, user |-> NoUser, id |-> 0,
   cat |-> NoCat, parent |-> NoCat, body |-> NoBody, doc |-> NoRecipe, v |-> 0,
   arg |-> 0, code |-> 0]

NoFlights == [s \in Slots |-> NoFlight]

\* a document is created with __v 0
NoVersions == [i \in RecipeIds |-> 0]

-----------------------------------------------------------------------------
(* The state the recipe specifications start from: verified, active        *)
(* accounts (root is an admin) logged in at time 0, two categories, and no *)
(* recipe.                                                                 *)

ActiveUser(role) ==
  [NoUserDoc EXCEPT !.exists = TRUE, !.role = role, !.accountStatus = "active",
                    !.isEmailVerified = TRUE, !.password = 1]

SessionToken(u) == [sub |-> u, iat |-> 0, exp |-> JwtTTL, sig |-> TRUE]

InitRecipes ==
  /\ users = [u \in UserIds |-> ActiveUser(IF u = "root" THEN "admin" ELSE "user")]
  /\ recipes = [i \in RecipeIds |-> NoRecipe]
  /\ categories = [c \in CatIds |-> IF c # "c3" THEN SeedCategory(c) ELSE NoCategory]
  /\ nextRecipe = 1
  /\ now = 0
  /\ tokens = {SessionToken(u) : u \in UserIds}
  /\ nonce = 0
  /\ mail = {}
  /\ resp = NoResp
  /\ inflight = NoFlights
  /\ versions = NoVersions

Body(cat, prep, cook, st, vis, tr) ==
  [category |-> cat, prepTime |-> prep, cookTime |-> cook,
   status |-> st, visibility |-> vis, totalRatings |-> tr]

RecipeCreds == {NoCred} \cup {Bearer(SessionToken(u)) : u \in {"alice", "bob", "root"}}

-----------------------------------------------------------------------------
(* SpecList: what the public list and read routes return *)

ListCreds == {Bearer(SessionToken("alice"))}

ListBodies ==
  {Body("c1", 1, 0, st, vis, AbsentNum) :
     st \in {Absent, "published"}, vis \in {Absent, "private", "friends_only"}}

ListQueries ==
  [status : {Absent, "draft"}, visibility : {Absent},
   category : {Absent}, maxPrepTime : {AbsentNum, 1},
   page : {AbsentNum}, limit : {AbsentNum}]
  \cup {[NoQuery EXCEPT !.status = "draft", !.visibility = "private"]}
  \cup {[status |-> Absent, visibility |-> Absent, category |-> "c1",
         maxPrepTime |-> AbsentNum, page |-> p, limit |-> 1] : p \in {0, 1, 2}}

NextList ==
  \/ \E cred \in ListCreds, body \in ListBodies : CreateRecipe(cred, body)
  \/ \E q \in ListQueries, strict \in BOOLEAN : GetAllRecipes(q, strict)
  \/ \E id \in RecipeIds : GetRecipe(NoCred, id)

SpecList == InitRecipes /\ [][NextList]_vars

-----------------------------------------------------------------------------
(* SpecRead: who reads a recipe, and what the read does to its view counter *)

ReadCreds == {NoCred} \cup {Bearer(SessionToken(u)) : u \in {"alice", "bob"}}

NextRead ==
  \/ \E body \in ListBodies : CreateRecipe(Bearer(SessionToken("alice")), body)
  \/ \E cred \in ReadCreds, id \in RecipeIds : GetRecipe(cred, id)

SpecRead == InitRecipes /\ [][NextRead]_vars

-----------------------------------------------------------------------------
(* SpecOwner: who may change or delete a recipe *)

OwnerBodies ==
  {Body(c, 1, 0, Absent, Absent, AbsentNum) : c \in CatIds}
  \cup {Body("c2", 1, 0, "bogus", Absent, AbsentNum),
        Body("c1", 0, 0, Absent, Absent, AbsentNum)}

OwnerUpdates ==
  {Body("c2", 1, 0, st, Absent, AbsentNum) : st \in {Absent, "bogus"}}

OwnerCreds == RecipeCreds \ {NoCred}

NextOwner ==
  \/ \E cred \in OwnerCreds, body \in OwnerBodies : CreateRecipe(cred, body)
  \/ \E cred \in OwnerCreds, id \in RecipeIds, body \in OwnerUpdates :
       UpdateRecipe(cred, id, body)
  \/ \E cred \in OwnerCreds, id \in RecipeIds : DeleteRecipe(cred, id)

SpecOwner == InitRecipes /\ [][NextOwner]_vars

-----------------------------------------------------------------------------
(* SpecRating: ratings and the derived fields of one recipe.  It starts    *)
(* where all recipe ids but the last have been used and deleted again.     *)

InitRating ==
  /\ users = [u \in UserIds |-> ActiveUser(IF u = "root" THEN "admin" ELSE "user")]
  /\ recipes = [i \in RecipeIds |-> NoRecipe]
  /\ categories = [c \in CatIds |-> IF c # "c3" THEN SeedCategory(c) ELSE NoCategory]
  /\ nextRecipe = NumRecipes
  /\ now = 0
  /\ tokens = {SessionToken(u) : u \in UserIds}
  /\ nonce = 0
  /\ mail = {}
  /\ resp = NoResp
  /\ inflight = NoFlights
  /\ versions = NoVersions

RatingCreds == {Bearer(SessionToken(u)) : u \in {"alice", "bob", "carol", "root"}}

RatingBodies ==
  {Body("c1", p, 0, Absent, Absent, tr) : p \in {1, 2}, tr \in {AbsentNum, 1}}

RatingValues == {1, 2, 6}

NextRating ==
  \/ \E body \in RatingBodies : CreateRecipe(Bearer(SessionToken("alice")), body)
  \/ \E body \in RatingBodies :
       UpdateRecipe(Bearer(SessionToken("alice")), NumRecipes, body)
  \/ \E cred \in RatingCreds, v \in RatingValues : RateRecipe(cred, NumRecipes, v)
  \/ ToggleBookmark(Bearer(SessionToken("bob")), NumRecipes)
  \/ GetRecipe(NoCred, NumRecipes)

SpecRating == InitRating /\ [][NextRating]_vars

-----------------------------------------------------------------------------
(* The User model and the auth controller.  A user id stands for one       *)
(* registration: the e-mail address together with the ObjectId it got.     *)
(* Request bodies are well formed (the express-validator chains pass) and  *)
(* the rate limits are not reached.                                        *)

\* emailVerificationExpires: 24 hours, in ticks
VerifyTTL == 2

\* passwordResetExpires: 10 minutes, in ticks
ResetTTL == 1

\* how long a lock set by failed logins lasts, in ticks
LockTTL == 2

RoleEnum == {"user", "chef", "admin", "moderator"}
AccountStatusEnum == {"active", "inactive", "suspended", "pending"}

\* crypto.createHash('sha256'): injective, and no digest is a raw token
Sha256(n) == 0 - n

\* comparePassword: the candidate against the stored (hashed) password
ComparePassword(u, pw) == u.password = pw

\* the pre('save') hook of a modified password on a stored document: the new
\* password and the time of the change
SavePassword(u, pw) == [u EXCEPT !.password = pw, !.passwordChangedAt = now]

\* findByCredentials: the account of that e-mail address, if the password is its own
FindByCredentials(u, pw) == users[u].exists /\ ComparePassword(users[u], pw)

\* a failed login counts towards the lock; locks says whether this attempt
\* reaches the limit of attempts
FailedAttempt(u, locks) ==
  IF locks THEN [u EXCEPT !.lockUntil = now + LockTTL] ELSE u

\* restrictTo(...roles): 200 stands for next()
RestrictTo(roles, userId) == IF users[userId].role \notin roles THEN 403 ELSE 200

Letter(kind, u, n) == [kind |-> kind, to |-> u, token |-> n]

\* what an auth or user request logs of itself
AuthReply(op, cred, pr, code, account, tok) ==
  [NoResp EXCEPT !.op = op, !.code = code, !.cred = cred, !.user = pr.user,
                 !.ran = (pr.code = 200), !.account = account, !.tok = tok]

\* a request on a public auth route: no middleware looks at the credentials
Public == [code |-> 200, user |-> NoUser]

\* POST /api/auth/register: register.  The welcome e-mail may fail to be sent;
\* the registration stands either way.
Register(u, pw, delivered) ==
  /\ users[u].exists \/ nonce < MaxNonce
  /\ IF users[u].exists
     THEN /\ resp' = AuthReply("register", NoCred, Public, 409, u, NoToken)
          /\ UNCHANGED <<users, nonce, mail>>
     ELSE /\ users' = [users EXCEPT ![u] =
                         [NoUserDoc EXCEPT !.exists = TRUE, !.password = pw,
                                           !.accountStatus = "pending",
                                           !.emailVerificationToken = nonce + 1,
                                           !.emailVerificationExpires = now + VerifyTTL]]
          /\ nonce' = nonce + 1
          /\ mail' = IF delivered THEN mail \cup {Letter("verify", u, nonce + 1)} ELSE mail
          /\ resp' = AuthReply("register", NoCred, Public, 201, u, NoToken)
  /\ UNCHANGED <<recipes, categories, nextRecipe, now, tokens,
                 inflight, versions>>

Login_NoVerifiedCheck(u, pw, locks) ==
  LET ok == FindByCredentials(u, pw)
      code == IF ~ok THEN 401 ELSE 200
      t == SignToken(u)
  IN /\ users' = IF ~ok /\ users[u].exists
                 THEN [users EXCEPT ![u] = FailedAttempt(@, locks)]
                 ELSE users
     /\ tokens' = IF code = 200 THEN tokens \cup {t} ELSE tokens
     /\ resp' = [AuthReply("login", NoCred, Public, code, u,
                           IF code = 200 THEN t ELSE NoToken) EXCEPT !.arg = pw]
     /\ UNCHANGED <<recipes, categories, nextRecipe, now, nonce, mail,
                    inflight, versions>>

\* POST /api/auth/login: login, then createSendToken
Login(u, pw, locks) ==
  LET ok == FindByCredentials(u, pw)
      code == IF ~ok THEN 401 ELSE IF ~users[u].isEmailVerified THEN 401 ELSE 200
      t == SignToken(u)
  IN /\ users' = IF ~ok /\ users[u].exists
                 THEN [users EXCEPT ![u] = FailedAttempt(@, locks)]
                 ELSE users
     /\ tokens' = IF code = 200 THEN tokens \cup {t} ELSE tokens
     /\ resp' = [AuthReply("login", NoCred, Public, code, u,
                           IF code = 200 THEN t ELSE NoToken) EXCEPT !.arg = pw]
     /\ UNCHANGED <<recipes, categories, nextRecipe, now, nonce, mail,
                    inflight, versions>>

\* the users a query on a token field finds
WithVerificationToken(n) ==
  {u \in UserIds : /\ users[u].exists
                   /\ users[u].emailVerificationToken = n
                   /\ users[u].emailVerificationExpires > now}

WithResetToken(n) ==
  {u \in UserIds : /\ users[u].exists
                   /\ users[u].passwordResetToken = n
                   /\ users[u].passwordResetExpires > now}

\* GET /api/auth/verify-email/:token: verifyEmail
VerifyEmail(n) ==
  /\ IF WithVerificationToken(n) = {}
     THEN /\ resp' = AuthReply("verifyEmail", NoCred, Public, 400, NoUser, NoToken)
          /\ UNCHANGED users
     ELSE LET u == CHOOSE u \in WithVerificationToken(n) : TRUE IN
          /\ users' = [users EXCEPT ![u] =
                         [@ EXCEPT !.isEmailVerified = TRUE,
                                   !.accountStatus = "active",
                                   !.emailVerificationToken = 0,
                                   !.emailVerificationExpires = -1]]
          /\ resp' = AuthReply("verifyEmail", NoCred, Public, 200, u, NoToken)
  /\ UNCHANGED <<recipes, categories, nextRecipe, now, tokens, nonce, mail,
                 inflight, versions>>

\* POST /api/auth/resend-verification: resendVerification.  A failure to send
\* the e-mail takes the new token back.
ResendVerification(u, delivered) ==
  /\ (users[u].exists /\ ~users[u].isEmailVerified) => nonce < MaxNonce
  /\ IF ~users[u].exists
       THEN /\ resp' = AuthReply("resendVerification", NoCred, Public, 404, u, NoToken)
            /\ UNCHANGED <<users, nonce, mail>>
     ELSE IF users[u].isEmailVerified
       THEN /\ resp' = AuthReply("resendVerification", NoCred, Public, 400, u, NoToken)
            /\ UNCHANGED <<users, nonce, mail>>
     ELSE /\ nonce' = nonce + 1
          /\ users' = [users EXCEPT ![u] =
                         IF delivered
                         THEN [@ EXCEPT !.emailVerificationToken = nonce + 1,
                                        !.emailVerificationExpires = now + VerifyTTL]
                         ELSE [@ EXCEPT !.emailVerificationToken = 0,
                                        !.emailVerificationExpires = -1]]
          /\ mail' = IF delivered THEN mail \cup {Letter("verify", u, nonce + 1)} ELSE mail
          /\ resp' = AuthReply("resendVerification", NoCred, Public,
                               IF delivered THEN 200 ELSE 500, u, NoToken)
  /\ UNCHANGED <<recipes, categories, nextRecipe, now, tokens,
                 inflight, versions>>

ForgotPassword_KeepsToken(u, delivered) ==
  /\ users[u].exists => nonce < MaxNonce
  /\ IF ~users[u].exists
     THEN /\ resp' = AuthReply("forgotPassword", NoCred, Public, 404, u, NoToken)
          /\ UNCHANGED <<users, nonce, mail>>
     ELSE /\ nonce' = nonce + 1
          /\ users' = [users EXCEPT ![u] =
                         [@ EXCEPT !.passwordResetToken = Sha256(nonce + 1),
                                   !.passwordResetExpires = now + ResetTTL]]
          /\ mail' = IF delivered THEN mail \cup {Letter("reset", u, nonce + 1)} ELSE mail
          /\ resp' = AuthReply("forgotPassword", NoCred, Public,
                               IF delivered THEN 200 ELSE 500, u, NoToken)
  /\ UNCHANGED <<recipes, categories, nextRecipe, now, tokens,
                 inflight, versions>>

\* POST /api/auth/forgot-password: forgotPassword.  The digest of the token is
\* stored, the token itself is mailed; a failure to send takes it back.
ForgotPassword(u, delivered) ==
  /\ users[u].exists => nonce < MaxNonce
  /\ IF ~users[u].exists
     THEN /\ resp' = AuthReply("forgotPassword", NoCred, Public, 404, u, NoToken)
          /\ UNCHANGED <<users, nonce, mail>>
     ELSE /\ nonce' = nonce + 1
          /\ users' = [users EXCEPT ![u] =
                         IF delivered
                         THEN [@ EXCEPT !.passwordResetToken = Sha256(nonce + 1),
                                        !.passwordResetExpires = now + ResetTTL]
                         ELSE [@ EXCEPT !.passwordResetToken = 0,
                                        !.passwordResetExpires = -1]]
          /\ mail' = IF delivered THEN mail \cup {Letter("reset", u, nonce + 1)} ELSE mail
          /\ resp' = AuthReply("forgotPassword", NoCred, Public,
                               IF delivered THEN 200 ELSE 500, u, NoToken)
  /\ UNCHANGED <<recipes, categories, nextRecipe, now, tokens,
                 inflight, versions>>

\* PATCH /api/auth/reset-password/:token: resetPassword, then createSendToken
ResetPassword(n, pw) ==
  /\ IF WithResetToken(Sha256(n)) = {}
     THEN /\ resp' = AuthReply("resetPassword", NoCred, Public, 400, NoUser, NoToken)
          /\ UNCHANGED <<users, tokens>>
     ELSE LET u == CHOOSE u \in WithResetToken(Sha256(n)) : TRUE IN
          /\ users' = [users EXCEPT ![u] =
                         [SavePassword(@, pw) EXCEPT !.passwordResetToken = 0,
                                                     !.passwordResetExpires = -1]]
          /\ tokens' = tokens \cup {SignToken(u)}
          /\ resp' = AuthReply("resetPassword", NoCred, Public, 200, u, SignToken(u))
  /\ UNCHANGED <<recipes, categories, nextRecipe, now, nonce, mail,
                 inflight, versions>>

\* PATCH /api/auth/update-password: protect, validateUpdatePassword,
\* updatePassword, then createSendToken
UpdatePassword(cred, current, pw) ==
  /\ LET pr == Protect(cred) IN
     IF pr.code # 200
       THEN /\ resp' = AuthReply("updatePassword", cred, pr, pr.code, NoUser, NoToken)
            /\ UNCHANGED <<users, tokens>>
     ELSE IF ~ComparePassword(users[pr.user], current)
       THEN /\ resp' = AuthReply("updatePassword", cred, pr, 401, pr.user, NoToken)
            /\ UNCHANGED <<users, tokens>>
     ELSE /\ users' = [users EXCEPT ![pr.user] = SavePassword(@, pw)]
          /\ tokens' = tokens \cup {SignToken(pr.user)}
          /\ resp' = AuthReply("updatePassword", cred, pr, 200, pr.user,
                               SignToken(pr.user))
  /\ UNCHANGED <<recipes, categories, nextRecipe, now, nonce, mail,
                 inflight, versions>>

\* GET /api/users/profile: protect, getMyProfile
GetMyProfile(cred) ==
  /\ LET pr == Protect(cred) IN
     resp' = AuthReply("getMyProfile", cred, pr, pr.code, pr.user, NoToken)
  /\ UNCHANGED <<users, recipes, categories, nextRecipe, now, tokens, nonce, mail,
                 inflight, versions>>

\* validateRoleUpdate: role is one of the roles; accountStatus, when given, one
\* of the account states
ValidateRoleUpdate(role, status) ==
  role \in RoleEnum /\ status \in AccountStatusEnum \cup {Absent}

\* updateUserRole
UpdateUserRoleHandler(userId, id, role, status) ==
  IF id = userId THEN [code |-> 400, users |-> users]
  ELSE IF ~users[id].exists THEN [code |-> 404, users |-> users]
  ELSE [code |-> 200,
        users |-> [users EXCEPT ![id] =
                     [@ EXCEPT !.role = role,
                               !.accountStatus = IF status = Absent THEN @ ELSE status]]]

\* PATCH /api/users/:id/role: protect, restrictTo('admin', 'moderator'),
\* validateObjectId, validateRoleUpdate, updateUserRole
UpdateUserRole(cred, id, role, status) ==
  /\ LET pr == Protect(cred)
         may == IF pr.code = 200 THEN RestrictTo({"admin", "moderator"}, pr.user) ELSE 0
         out == IF pr.code # 200 THEN [code |-> pr.code, users |-> users]
                ELSE IF may # 200 THEN [code |-> may, users |-> users]
                ELSE IF ~ValidateRoleUpdate(role, status) THEN [code |-> 400, users |-> users]
                ELSE UpdateUserRoleHandler(pr.user, id, role, status)
     IN /\ users' = out.users
        /\ resp' = [AuthReply("updateUserRole", cred, pr, out.code, id, NoToken)
                      EXCEPT !.asked = status]
  /\ UNCHANGED <<recipes, categories, nextRecipe, now, tokens, nonce, mail,
                 inflight, versions>>

\* Recipe.updateMany({author}, {status: 'archived', visibility: 'private'})
ArchiveRecipesOf(id) ==
  [i \in RecipeIds |->
     IF recipes[i].exists /\ recipes[i].author = id
     THEN [recipes[i] EXCEPT !.status = "archived", !.visibility = "private"]
     ELSE recipes[i]]

\* DELETE /api/users/profile: protect, deleteAccount.  The document stays:
\* it is set inactive and its e-mail address and username are renamed.
DeleteAccount(cred) ==
  /\ LET pr == Protect(cred) IN
     IF pr.code # 200
       THEN /\ resp' = AuthReply("deleteAccount", cred, pr, pr.code, NoUser, NoToken)
            /\ UNCHANGED <<users, recipes>>
     ELSE /\ users' = [users EXCEPT ![pr.user].accountStatus = "inactive"]
          /\ recipes' = ArchiveRecipesOf(pr.user)
          /\ resp' = AuthReply("deleteAccount", cred, pr, 204, pr.user, NoToken)
  /\ UNCHANGED <<categories, nextRecipe, now, tokens, nonce, mail,
                 inflight, versions>>

\* DELETE /api/users/:id: protect, restrictTo('admin', 'moderator'),
\* validateObjectId, deleteUser
DeleteUser(cred, id) ==
  /\ LET pr == Protect(cred)
         may == IF pr.code = 200 THEN RestrictTo({"admin", "moderator"}, pr.user) ELSE 0
         code == IF pr.code # 200 THEN pr.code
                 ELSE IF may # 200 THEN may
                 ELSE IF id = pr.user THEN 400
                 ELSE IF ~users[id].exists THEN 404
                 ELSE 204
     IN /\ users' = IF code = 204 THEN [users EXCEPT ![id] = NoUserDoc] ELSE users
        /\ recipes' = IF code = 204 THEN ArchiveRecipesOf(id) ELSE recipes
        /\ resp' = AuthReply("deleteUser", cred, pr, code, id, NoToken)
  /\ UNCHANGED <<categories, nextRecipe, now, tokens, nonce, mail,
                 inflight, versions>>

\* time passes
Tick ==
  /\ now < MaxClock
  /\ now' = now + 1
  /\ UNCHANGED <<users, recipes, categories, nextRecipe, tokens, nonce, mail, resp,
                 inflight, versions>>

\* the routes behind protect
ProtectedOps ==
  {"createRecipe", "updateRecipe", "deleteRecipe", "rateRecipe", "toggleBookmark",
   "updatePassword", "getMyProfile", "updateUserRole", "deleteUser"}

\* a bearer token that was not signed with the server's secret
ForgedToken == [sub |-> "alice", iat |-> 0, exp |-> JwtTTL, sig |-> FALSE]

\* the tokens a letter brought, and one that no letter brought
Presented == {m.token : m \in mail} \cup {MaxNonce + 1}

-----------------------------------------------------------------------------
(* SpecAuth: an active account (alice) and an admin (root) logged in at    *)
(* time 0; logins, failed logins that lock the account, password changes,  *)
(* suspension and deletion by the admin, and requests on a protected route *)
(* with and without credentials.                                           *)

InitAuth ==
  /\ users = [u \in UserIds |->
                IF u = "alice" THEN ActiveUser("user")
                ELSE IF u = "root" THEN ActiveUser("admin")
                ELSE NoUserDoc]
  /\ recipes = [i \in RecipeIds |-> NoRecipe]
  /\ categories = [c \in CatIds |-> IF c # "c3" THEN SeedCategory(c) ELSE NoCategory]
  /\ nextRecipe = 1
  /\ now = 0
  /\ tokens = {SessionToken("root")}
  /\ nonce = 0
  /\ mail = {}
  /\ resp = NoResp
  /\ inflight = NoFlights
  /\ versions = NoVersions

AliceCreds == {Bearer(t) : t \in {t \in tokens : t.sub = "alice"}}
RootCred == Bearer(SessionToken("root"))
Passwords == {1, 2}

NextAuth ==
  \/ \E pw \in Passwords, locks \in BOOLEAN : Login("alice", pw, locks)
  \/ \E cred \in AliceCreds : UpdatePassword(cred, 1, 2)
  \/ \E status \in {"suspended", "active"} :
       UpdateUserRole(RootCred, "alice", "user", status)
  \/ DeleteUser(RootCred, "alice")
  \/ \E cred \in AliceCreds \cup {NoCred, Bearer(ForgedToken),
                                   Cookie(SessionToken("root"))} : GetMyProfile(cred)
  \/ Tick

SpecAuth == InitAuth /\ [][NextAuth]_vars

-----------------------------------------------------------------------------
(* SpecPassword: the same start; logins, password changes by the user and  *)
(* through the reset letter, suspension by the admin, and requests on a    *)
(* protected route with every token the user holds.                        *)

NextPassword ==
  \/ \E pw \in Passwords, locks \in BOOLEAN : Login("alice", pw, locks)
  \/ \E cred \in AliceCreds : UpdatePassword(cred, 1, 2)
  \/ ForgotPassword("alice", TRUE)
  \/ \E n \in Presented : ResetPassword(n, 2)
  \/ UpdateUserRole(RootCred, "alice", "user", "suspended")
  \/ \E cred \in AliceCreds : GetMyProfile(cred)
  \/ Tick

SpecPassword == InitAuth /\ [][NextPassword]_vars

-----------------------------------------------------------------------------
(* SpecSignup: nobody but the admin is registered; registration, e-mail    *)
(* verification, logins, suspension by the admin and requests on a         *)
(* protected route.  Failed logins stay below the limit of attempts here;  *)
(* SpecAuth has the ones that lock the account.                            *)

InitSignup ==
  /\ users = [u \in UserIds |-> IF u = "root" THEN ActiveUser("admin") ELSE NoUserDoc]
  /\ recipes = [i \in RecipeIds |-> NoRecipe]
  /\ categories = [c \in CatIds |-> IF c # "c3" THEN SeedCategory(c) ELSE NoCategory]
  /\ nextRecipe = 1
  /\ now = 0
  /\ tokens = {SessionToken("root")}
  /\ nonce = 0
  /\ mail = {}
  /\ resp = NoResp
  /\ inflight = NoFlights
  /\ versions = NoVersions

NextSignup ==
  \/ \E delivered \in BOOLEAN : Register("alice", 1, delivered)
  \/ \E pw \in Passwords : Login("alice", pw, FALSE)
  \/ \E n \in Presented : VerifyEmail(n)
  \/ \E delivered \in BOOLEAN : ResendVerification("alice", delivered)
  \/ \E status \in {"suspended", "active"} :
       UpdateUserRole(RootCred, "alice", "user", status)
  \/ \E cred \in AliceCreds \cup {NoCred} : GetMyProfile(cred)
  \/ Tick

SpecSignup == InitSignup /\ [][NextSignup]_vars

-----------------------------------------------------------------------------
(* Claims about the recipe routes *)

NonAdmin(u) == u = NoUser \/ users[u].role # "admin"

\* C1: every recipe in the list GET /api/recipes returns to a caller who is
\* absent or no admin is published and public, whatever the query asks for.
C1_ListOnlyPublishedPublic ==
  (resp.op = "getAllRecipes" /\ resp.code = 200 /\ NonAdmin(resp.user))
    => \A i \in 1..Len(resp.list) :
         /\ recipes[resp.list[i]].exists
         /\ recipes[resp.list[i]].status = "published"
         /\ recipes[resp.list[i]].visibility = "public"

\* a list asked for with status=draft that came back with a recipe, while a
\* draft that was left out is stored
C1_Witness ==
  /\ resp.op = "getAllRecipes" /\ resp.code = 200 /\ resp.asked = "draft"
  /\ Len(resp.list) >= 1
  /\ \E i \in RecipeIds : recipes[i].exists /\ recipes[i].status = "draft"

\* C2: GET /api/recipes/:id gives a recipe to a caller who is neither its
\* author nor an admin only if the recipe is published and public.
C2_ReadOnlyPublishedPublic ==
  (/\ resp.op = "getRecipe" /\ resp.code = 200
   /\ NonAdmin(resp.user) /\ resp.user # recipes[resp.id].author)
    => /\ recipes[resp.id].status = "published"
       /\ recipes[resp.id].visibility = "public"

\* C3: a PATCH or DELETE of a recipe by an authenticated principal who is
\* neither its author nor an admin is answered 403 and changes no recipe and
\* no category; the same request by an admin is not refused for ownership.
C3_Step ==
  (/\ resp'.op \in {"updateRecipe", "deleteRecipe"}
   /\ resp'.user # NoUser
   /\ recipes[resp'.id].exists)
    => /\ (recipes[resp'.id].author # resp'.user /\ users[resp'.user].role # "admin")
            => (resp'.code = 403 /\ recipes' = recipes /\ categories' = categories)
       /\ users[resp'.user].role = "admin" => resp'.code # 403

C3_NonOwnerRejected == [][C3_Step]_vars

C3_Witness ==
  /\ resp.op = "updateRecipe" /\ resp.code = 403 /\ resp.user = "bob"
  /\ recipes[resp.id].exists /\ recipes[resp.id].author = "alice"

RatingUsers(r) == {r.ratings[i].user : i \in 1..Len(r.ratings)}

C8_State ==
  /\ \A id \in RecipeIds :
       \A i, j \in 1..Len(recipes[id].ratings) :
         i # j => recipes[id].ratings[i].user # recipes[id].ratings[j].user
  /\ (resp.op = "rateRecipe" /\ resp.code = 200)
       => LET r == recipes[resp.id] IN
          /\ \E i \in 1..Len(r.ratings) :
               r.ratings[i].user = resp.user /\ r.ratings[i].rating = resp.arg
          /\ r.totalRatings <= Cardinality(RatingUsers(r))

C8_Step ==
  (/\ resp'.op = "rateRecipe" /\ resp'.code = 200
   /\ resp'.user \in RatingUsers(recipes[resp'.id]))
    => /\ Len(recipes'[resp'.id].ratings) = Len(recipes[resp'.id].ratings)
       /\ RatingUsers(recipes'[resp'.id]) = RatingUsers(recipes[resp'.id])

C9_AggregatesMatchRatings ==
  \A id \in RecipeIds :
    recipes[id].exists =>
      LET r == recipes[id] IN
      /\ r.totalRatings = Len(r.ratings)
      /\ Len(r.ratings) > 0
           => r.averageRating = RoundTenths(SumRatings(r.ratings), Len(r.ratings))

\* C10: each stored recipe has totalTime = prepTime + cookTime.
C10_TotalTime ==
  \A id \in RecipeIds :
    recipes[id].exists =>
      recipes[id].totalTime = recipes[id].prepTime + recipes[id].cookTime

-----------------------------------------------------------------------------
(* Claims about the auth pipeline *)

\* the token protect takes from a request
PresentedToken(c) == IF c.scheme = "Bearer" THEN c.token ELSE c.cookie

\* a step that is a request: every request answers within the tick
Request == now' = now

C4_Step ==
  (Request /\ resp'.op \in ProtectedOps) =>
    LET t == PresentedToken(resp'.cred) IN
    /\ resp'.ran =>
         /\ t.sig /\ t.exp > now
         /\ users[t.sub].exists
         /\ users[t.sub].accountStatus = "active"
         /\ ~IsLocked(users[t.sub])
         /\ ~ChangedPasswordAfter(users[t.sub], t.iat)
         /\ resp'.user = t.sub
    /\ ~resp'.ran =>
         /\ resp'.code \in {401, 403, 423, 500}
         /\ resp'.user = NoUser
         /\ UNCHANGED <<users, recipes, categories, nextRecipe, tokens, nonce, mail>>

\* C4: protect sets the principal and lets the handler run only if the token
\* verifies, its user exists, is active and not locked, and the password was
\* not changed after the token was issued; otherwise the request ends in an
\* error, has no principal, and changes nothing.
C4_ProtectGuardsHandler == [][C4_Step]_vars

\* a signed, unexpired token of an active but locked account was turned away
C4_Witness ==
  /\ resp.op = "getMyProfile" /\ resp.code = 423 /\ ~resp.ran
  /\ resp.cred.token \in tokens /\ resp.cred.token.exp > now
  /\ users[resp.cred.token.sub].accountStatus = "active"

\* C5: a request to a protected route with neither a bearer header nor a jwt
\* cookie is answered 401 and its handler is not run.
C5_NoCredentialIs401 ==
  (resp.op \in ProtectedOps /\ resp.cred = NoCred)
    => (resp.code = 401 /\ ~resp.ran)

C6_Step ==
  /\ (Request /\ resp'.op \in {"updatePassword", "resetPassword"} /\ resp'.code = 200) =>
       LET u == resp'.account IN
       /\ \A t \in tokens :
            (t.sub = u /\ t.iat < now) => (Protect(Bearer(t)).code # 200)'
       /\ resp'.tok \in tokens' /\ resp'.tok.sub = u
       /\ \A t \in tokens' :
            (t = resp'.tok /\ users'[u].accountStatus = "active" /\ ~IsLocked(users'[u]))
              => (Protect(Bearer(t)).code = 200)'
  /\ (Request /\ resp'.op \in ProtectedOps /\ resp'.cred.scheme = "Bearer"
      /\ resp'.cred.token \in tokens /\ users[resp'.cred.token.sub].exists) =>
       LET t == resp'.cred.token
           u == users[t.sub]
       IN /\ t.iat < u.passwordChangedAt => (~resp'.ran /\ resp'.code # 200)
          /\ (/\ t.iat >= u.passwordChangedAt /\ u.accountStatus = "active"
              /\ ~IsLocked(u) /\ t.exp > now) => resp'.ran
  /\ \A u \in UserIds :
       (users[u].exists /\ users'[u].exists)
         => users'[u].passwordChangedAt >= users[u].passwordChangedAt

\* C6: a password change (update-password or reset-password) makes protect
\* turn away every token of the user with an earlier issue time, in every
\* later request (the time of the last change never moves back); a token
\* issued at or after the change passes while the account is active and
\* unlocked and the token unexpired.
C6_PasswordChangeRevokesTokens == [][C6_Step]_vars

\* an unexpired token of an active, unlocked account turned away because the
\* password changed after it was issued
C6_Witness ==
  /\ resp.op = "getMyProfile" /\ resp.code = 401 /\ resp.cred.scheme = "Bearer"
  /\ resp.cred.token \in tokens /\ resp.cred.token.exp > now
  /\ LET u == users[resp.cred.token.sub] IN
     /\ u.exists /\ u.accountStatus = "active" /\ ~IsLocked(u)
     /\ resp.cred.token.iat < u.passwordChangedAt

\* what every step keeps of C7, whatever becomes of the token
C7_Common ==
  /\ (Request /\ resp'.op = "login" /\ FindByCredentials(resp'.account, resp'.arg)
      /\ ~users[resp'.account].isEmailVerified)
       => (resp'.code = 401 /\ resp'.tok = NoToken /\ tokens' = tokens)
  /\ (Request /\ resp'.op = "verifyEmail" /\ resp'.code = 200)
       => users'[resp'.account].isEmailVerified
  /\ \A u \in UserIds :
       (users[u].exists /\ users[u].isEmailVerified)
         => (users'[u].exists /\ users'[u].isEmailVerified)

C7_StepAsStated ==
  /\ C7_Common
  /\ (Request /\ resp'.op = "login" /\ FindByCredentials(resp'.account, resp'.arg)
      /\ users[resp'.account].isEmailVerified)
       => /\ resp'.code = 200
          /\ \A t \in tokens' : t = resp'.tok => (Protect(Bearer(t)).code = 200)'

C7_Step ==
  /\ C7_Common
  /\ (Request /\ resp'.op = "login" /\ FindByCredentials(resp'.account, resp'.arg)
      /\ users[resp'.account].isEmailVerified)
       => /\ resp'.code = 200
          /\ \A t \in tokens' :
               (/\ t = resp'.tok
                /\ users[resp'.account].accountStatus = "active"
                /\ ~IsLocked(users[resp'.account]))
                 => (Protect(Bearer(t)).code = 200)'
  /\ (Request /\ resp'.op = "getMyProfile" /\ resp'.cred.scheme = "Bearer"
      /\ resp'.cred.token \in tokens /\ resp'.cred.token.exp > now)
       => LET u == users[resp'.cred.token.sub] IN
          (u.accountStatus = "active" /\ ~IsLocked(u)) => resp'.code = 200

-----------------------------------------------------------------------------
(* Category controller.  Every request carries a valid name and a code     *)
(* that no other category has, so of the two unique keys only the slug     *)
(* can collide.                                                            *)

CatOut(code, cs, id) == [code |-> code, categories |-> cs, id |-> id]

\* the _id of the next document: an id that never held one
FreshCat(cs) == CHOOSE c \in DOMAIN cs : ~cs[c].exists /\ ~cs[c].deleted

CreateCategoryHandler(body) ==
  IF \E c \in DOMAIN categories :
       categories[c].exists /\ categories[c].slug = body.slug
  THEN CatOut(409, categories, NoCat)
  ELSE LET id == FreshCat(categories)
           saved == SaveCategory(categories, id, NewCategory(body),
                                 body.parent # Absent)
       IN IF saved.ok THEN CatOut(201, saved.categories, id)
          ELSE CatOut(400, categories, NoCat)

\* the body of a PATCH carries no slug; findByIdAndUpdate $set's the body's
\* keys and runs no save hook
UpdateCategoryHandler(id, body) ==
  IF ~categories[id].exists THEN CatOut(404, categories, id)
  ELSE CatOut(200,
              IF body.parent = Absent THEN categories
              ELSE [categories EXCEPT ![id].parent = body.parent],
              id)

\* Recipe.countDocuments({category: id})
RecipesOf(id) == {i \in RecipeIds : recipes[i].exists /\ recipes[i].category = id}

DeleteCategoryHandler(id) ==
  LET c == categories[id]
      pulled == IF c.parent # NoCat /\ c.parent \in DOMAIN categories
                   /\ categories[c.parent].exists
                THEN [categories EXCEPT ![c.parent].children = Pull(@, id)]
                ELSE categories
  IN IF ~c.exists THEN CatOut(404, categories, id)
     ELSE IF Cardinality(RecipesOf(id)) > 0 THEN CatOut(400, categories, id)
     ELSE IF Len(c.children) > 0 THEN CatOut(400, categories, id)
     ELSE CatOut(204, [pulled EXCEPT ![id] = [NoCategory EXCEPT !.deleted = TRUE]], id)

\* validateCategory: parent, when given, is an ObjectId (null is refused)
ValidateCategory(body) == body.parent # NoCat

\* protect, then restrictTo('admin', 'moderator')
AdminGate(cred) ==
  LET pr == Protect(cred)
  IN IF pr.code # 200 THEN pr.code
     ELSE RestrictTo({"admin", "moderator"}, pr.user)

CatReply(op, cred, out, parent) ==
  [Reply(op, cred, Protect(cred), out.code, 0) EXCEPT
     !.cat = out.id, !.parent = parent]

\* POST /api/categories: protect, restrictTo, validateCategory, createCategory
CreateCategory(cred, body) ==
  /\ \E c \in DOMAIN categories : ~categories[c].exists /\ ~categories[c].deleted
  /\ LET gate == AdminGate(cred)
         out == IF gate # 200 THEN CatOut(gate, categories, NoCat)
                ELSE IF ~ValidateCategory(body) THEN CatOut(400, categories, NoCat)
                ELSE CreateCategoryHandler(body)
     IN /\ categories' = out.categories
        /\ resp' = CatReply("createCategory", cred, out, body.parent)
  /\ UNCHANGED <<users, recipes, nextRecipe, now, tokens, nonce, mail,
                 inflight, versions>>

\* PATCH /api/categories/:id: protect, restrictTo, validateObjectId,
\* validateCategory, updateCategory
UpdateCategory(cred, id, body) ==
  /\ LET gate == AdminGate(cred)
         out == IF gate # 200 THEN CatOut(gate, categories, id)
                ELSE IF ~ValidateCategory(body) THEN CatOut(400, categories, id)
                ELSE UpdateCategoryHandler(id, body)
     IN /\ categories' = out.categories
        /\ resp' = CatReply("updateCategory", cred, out, body.parent)
  /\ UNCHANGED <<users, recipes, nextRecipe, now, tokens, nonce, mail,
                 inflight, versions>>

\* DELETE /api/categories/:id: protect, restrictTo, validateObjectId,
\* deleteCategory
DeleteCategory(cred, id) ==
  /\ LET gate == AdminGate(cred)
         out == IF gate # 200 THEN CatOut(gate, categories, id)
                ELSE DeleteCategoryHandler(id)
     IN /\ categories' = out.categories
        /\ resp' = CatReply("deleteCategory", cred, out, Absent)
  /\ UNCHANGED <<users, recipes, nextRecipe, now, tokens, nonce, mail,
                 inflight, versions>>

-----------------------------------------------------------------------------
(* SpecCategory: the category hierarchy under create, re-parent and delete *)
(* requests.                                                               *)

CategoryCreds == {Bearer(SessionToken(u)) : u \in {"root", "alice"}}

CategorySlugs == {"c1", "soups"}

\* the ids a client can name: those of documents it has seen
KnownCats == {c \in DOMAIN categories : categories[c].exists \/ categories[c].deleted}

ParentInputs == {Absent, NoCat} \cup KnownCats

CategoryRecipeBodies ==
  {Body("c1", 1, 0, Absent, Absent, AbsentNum),
   Body("c2", 1, 0, "bogus", Absent, AbsentNum)}

NextCategory ==
  \/ \E cred \in CategoryCreds, slug \in CategorySlugs, parent \in ParentInputs :
       CreateCategory(cred, [slug |-> slug, parent |-> parent])
  \/ \E cred \in CategoryCreds, id \in DOMAIN categories, parent \in ParentInputs :
       UpdateCategory(cred, id, [parent |-> parent])
  \/ \E cred \in CategoryCreds, id \in DOMAIN categories : DeleteCategory(cred, id)

SpecCategory == InitRecipes /\ [][NextCategory]_vars

-----------------------------------------------------------------------------
(* SpecCategoryDelete: deleting categories that hold recipes or children *)

NextCategoryDelete ==
  \/ \E parent \in {Absent, "c1"} :
       CreateCategory(Bearer(SessionToken("root")),
                      [slug |-> "soups", parent |-> parent])
  \/ \E cred \in CategoryCreds, id \in DOMAIN categories : DeleteCategory(cred, id)
  \/ \E body \in CategoryRecipeBodies :
       CreateRecipe(Bearer(SessionToken("root")), body)
  \/ \E id \in RecipeIds, body \in CategoryRecipeBodies :
       UpdateRecipe(Bearer(SessionToken("root")), id, body)

SpecCategoryDelete == InitRecipes /\ [][NextCategoryDelete]_vars

-----------------------------------------------------------------------------
(* C11: the per-category recipe counter on create and delete *)

\* the counter of category c moves by d and every other counter stays
OnlyCounterMoved(c, d) ==
  \A k \in CatIds :
    categories'[k].recipeCount =
      categories[k].recipeCount + (IF k = c THEN d ELSE 0)

C11_Step ==
  /\ (resp'.op = "createRecipe" /\ resp'.code = 201)
       => /\ recipes'[resp'.id].exists /\ ~recipes[resp'.id].exists
          /\ OnlyCounterMoved(recipes'[resp'.id].category, 1)
  /\ (resp'.op = "deleteRecipe" /\ resp'.code = 204)
       => /\ recipes[resp'.id].exists /\ ~recipes'[resp'.id].exists
          /\ OnlyCounterMoved(recipes[resp'.id].category, -1)

\* C11: a request that creates a recipe in category X raises X's recipeCount
\* by exactly 1 and leaves every other category's counter alone; a request
\* that deletes a recipe of category X lowers X's recipeCount by exactly 1
\* and leaves every other category's counter alone.
C11_CounterFollowsCreateAndDelete == [][C11_Step]_vars

\* a recipe was deleted while another category still counts a recipe
C11_Witness ==
  /\ resp.op = "deleteRecipe" /\ resp.code = 204
  /\ \E c, d \in CatIds :
       /\ c # d
       /\ categories[c].recipeCount = 0
       /\ categories[d].recipeCount = 1
       /\ \E i \in RecipeIds : recipes[i].exists /\ recipes[i].category = d

-----------------------------------------------------------------------------
(* C12: deleting a category that holds recipes or children *)

C12_Step ==
  LET id == resp'.cat IN
  (/\ resp'.op = "deleteCategory"
   /\ AdminGate(resp'.cred) = 200
   /\ categories[id].exists
   /\ (categories[id].recipeCount > 0 \/ Len(categories[id].children) > 0))
    => /\ resp'.code \in {400, 409}
       /\ categories'[id] = categories[id]
       /\ \A p \in DOMAIN categories :
            p = categories[id].parent => categories'[p].children = categories[p].children

\* C12: an admin's delete request for a category whose recipeCount is above
\* 0 or whose children set is not empty is refused with a 4xx domain error,
\* and leaves the category stored and its parent's children set as it was.
C12_DeleteRefusedWhileInUse == [][C12_Step]_vars

-----------------------------------------------------------------------------
(* C13: level and path follow the parent *)

\* C13: every stored category with a parent p has level = p.level + 1 and
\* path = p.path "/" its own slug, and every stored category without a parent
\* has level 0 and path = its slug.
C13_LevelAndPathFollowParent ==
  \A c \in DOMAIN categories :
    categories[c].exists =>
      LET d == categories[c] IN
      IF d.parent = NoCat
      THEN d.level = 0 /\ d.path = <<d.slug>>
      ELSE /\ d.parent \in DOMAIN categories
           /\ categories[d.parent].exists
           /\ d.level = categories[d.parent].level + 1
           /\ d.path = Append(categories[d.parent].path, d.slug)

-----------------------------------------------------------------------------
(* C14: the parent's children after a create or an update *)

Occurrences(s, x) == Cardinality({i \in 1..Len(s) : s[i] = x})

C14_Step ==
  LET c == resp'.cat IN
  (/\ resp'.op \in {"createCategory", "updateCategory"}
   /\ resp'.code \in {200, 201}
   /\ categories'[c].parent # NoCat)
    => LET p == categories'[c].parent IN
       /\ p \in DOMAIN categories
       /\ categories'[p].exists
       /\ Occurrences(categories'[p].children, c) = 1

\* C14: after a successful create or update request that leaves category c
\* with parent p, p is stored and its children hold c's id exactly once.
C14_ParentListsChild == [][C14_Step]_vars

-----------------------------------------------------------------------------
(* C16: the parent relation is a forest *)

\* getAncestors: the document its loop holds after n rounds, NoCat once the
\* loop has ended (no parent, or a parent that is not stored)
RECURSIVE GetAncestors(_, _)
GetAncestors(c, n) ==
  IF n = 0 THEN c
  ELSE LET current == GetAncestors(c, n - 1) IN
       IF current = NoCat THEN NoCat
       ELSE LET p == categories[current].parent IN
            IF p = NoCat \/ p \notin DOMAIN categories THEN NoCat
            ELSE IF ~categories[p].exists THEN NoCat
            ELSE p

\* C16: no stored category is its own ancestor, and the walk of getAncestors
\* from any stored category ends.
C16_ParentsFormForest ==
  \A c \in DOMAIN categories :
    categories[c].exists =>
      /\ \A n \in 1..Cardinality(DOMAIN categories) : GetAncestors(c, n) # c
      /\ GetAncestors(c, Cardinality(DOMAIN categories)) = NoCat

-----------------------------------------------------------------------------
(* SpecDepth: the depth of the hierarchy.  It starts where an admin has    *)
(* created a chain of categories, each under the one before.               *)

DepthOrder == <<"d0", "d1", "d2", "d3", "d4", "d5", "d6">>

DepthIds == {DepthOrder[i] : i \in 1..Len(DepthOrder)}

\* the collection after POST /api/categories for the first n ids in turn
RECURSIVE Chain(_)
Chain(n) ==
  IF n = 0 THEN [c \in DepthIds |-> NoCategory]
  ELSE LET body == [slug |-> DepthOrder[n],
                    parent |-> IF n = 1 THEN Absent ELSE DepthOrder[n - 1]]
       IN SaveCategory(Chain(n - 1), DepthOrder[n], NewCategory(body),
                       body.parent # Absent).categories

InitDepth ==
  /\ users = [u \in UserIds |-> ActiveUser(IF u = "root" THEN "admin" ELSE "user")]
  /\ recipes = [i \in RecipeIds |-> NoRecipe]
  /\ categories = Chain(Len(DepthOrder) - 2)
  /\ nextRecipe = 1
  /\ now = 0
  /\ tokens = {SessionToken(u) : u \in UserIds}
  /\ nonce = 0
  /\ mail = {}
  /\ resp = NoResp
  /\ inflight = NoFlights
  /\ versions = NoVersions

DepthSlugs == {"d5", "d6"}

\* the categories the requests of this specification name
DepthTail == {"d4", "d5", "d6"}

NextDepth ==
  \/ \E slug \in DepthSlugs, parent \in (KnownCats \cap DepthTail) \cup {Absent} :
       CreateCategory(Bearer(SessionToken("root")), [slug |-> slug, parent |-> parent])
  \/ \E id \in DepthTail, parent \in {"d3", "d4"} :
       UpdateCategory(Bearer(SessionToken("root")), id, [parent |-> parent])
  \/ \E id \in DepthTail : DeleteCategory(Bearer(SessionToken("root")), id)

SpecDepth == InitDepth /\ [][NextDepth]_vars

-----------------------------------------------------------------------------
(* C15: the depth limit *)

\* C15: no stored category has a level above 5.
C15_LevelAtMostFive ==
  \A c \in DOMAIN categories : categories[c].exists => categories[c].level <= MaxLevel

-----------------------------------------------------------------------------
(* C17, C18: the pagination of GET /api/recipes *)

\* the recipes that satisfy every constraint applied to the returned list
Listed(q, reqUser, strict) == Matching(ListConditions(q, reqUser), strict)

\* the page and limit a request is served with when both default
EffectivePage(q) == IF q.page >= 1 THEN q.page ELSE 1
EffectiveLimit(q) == IF q.limit >= 1 THEN q.limit ELSE DefaultLimit

\* how many recipes page p holds when n recipes are cut into pages of m
PageSize(n, p, m) ==
  IF n <= (p - 1) * m THEN 0
  ELSE IF n - (p - 1) * m < m THEN n - (p - 1) * m ELSE m

\* C17: the total a list request reports is the number of recipes that
\* satisfy every constraint applied to the returned list, so the page it
\* returns is the page of that many recipes.
C17_TotalCountsListedRecipes ==
  (resp.op = "getAllRecipes" /\ resp.code = 200)
    => /\ resp.total = Cardinality(Listed(resp.query, resp.user, resp.strict))
       /\ Len(resp.list) =
            PageSize(resp.total, EffectivePage(resp.query), EffectiveLimit(resp.query))

\* C18: a list request whose page or limit is missing, zero or negative is
\* not answered with an error: it is served the page the defaults page = 1
\* and limit = 12 select.
C18_BadPagingFallsBackToDefaults ==
  (/\ resp.op = "getAllRecipes"
   /\ (resp.query.page < 1 \/ resp.query.limit < 1)
   /\ (resp.query.maxPrepTime = AbsentNum \/ resp.query.maxPrepTime >= 1))
    => /\ resp.code = 200
       /\ resp.list =
            SkipLimit(NewestFirst(Listed(resp.query, resp.user, resp.strict)),
                      (EffectivePage(resp.query) - 1) * EffectiveLimit(resp.query),
                      EffectiveLimit(resp.query))

-----------------------------------------------------------------------------
(* C19: the view counter *)

\* the user a request's credentials identify, NoUser when they identify none
Viewer(cred) == IF Protect(cred).code = 200 THEN Protect(cred).user ELSE NoUser

C19_Step ==
  (resp'.op = "getRecipe" /\ resp'.code = 200)
    => LET r == recipes[resp'.id] IN
       recipes'[resp'.id].views =
         IF Viewer(resp'.cred) = r.author THEN r.views ELSE r.views + 1

\* C19: a successful read of a recipe raises its views by exactly 1 when the
\* viewer is not the recipe's author and leaves views as it was when the
\* viewer is the author.
C19_ViewsCountOtherViewers == [][C19_Step]_vars

-----------------------------------------------------------------------------
(* C20: rating one's own recipe *)

C20_Step ==
  (/\ resp'.op = "rateRecipe"
   /\ resp'.ran
   /\ recipes[resp'.id].exists
   /\ recipes[resp'.id].author = resp'.user)
    => /\ resp'.code = 400
       /\ recipes'[resp'.id].ratings = recipes[resp'.id].ratings
       /\ recipes'[resp'.id].averageRating = recipes[resp'.id].averageRating
       /\ recipes'[resp'.id].totalRatings = recipes[resp'.id].totalRatings

\* C20: a rating an authenticated user submits for a recipe of their own is
\* answered 400 and leaves the recipe's ratings list, averageRating and
\* totalRatings as they were.
C20_AuthorCannotRate == [][C20_Step]_vars

\* the author's valid rating of a recipe that others have rated was refused
C20_Witness ==
  /\ resp.op = "rateRecipe" /\ resp.code = 400 /\ resp.ran
  /\ resp.arg \in 1..5
  /\ recipes[resp.id].exists
  /\ recipes[resp.id].author = resp.user
  /\ Len(recipes[resp.id].ratings) >= 1
  /\ recipes[resp.id].averageRating > 0

-----------------------------------------------------------------------------
(* C21: how an account becomes active *)

C21_Step ==
  /\ (Request /\ resp'.op = "register" /\ resp'.code = 201)
       => users'[resp'.account].accountStatus = "pending"
  /\ \A u \in UserIds :
       (/\ users[u].exists
        /\ users[u].accountStatus # "active"
        /\ users'[u].exists
        /\ users'[u].accountStatus = "active")
         => /\ resp'.op = "verifyEmail" /\ resp'.code = 200 /\ resp'.account = u
            /\ users[u].emailVerificationExpires > now
            /\ users'[u].isEmailVerified

\* C21: a registration stores the user with accountStatus pending, and the
\* only request that makes a stored user's accountStatus active is the
\* redemption of that user's unexpired e-mail verification token.
C21_ActiveOnlyByVerification == [][C21_Step]_vars

-----------------------------------------------------------------------------
(* SpecAccount: accounts that own recipes are closed by their owner or     *)
(* deleted by the admin.                                                   *)

AccountCreds == {Bearer(SessionToken(u)) : u \in {"alice", "bob"}}

NextAccount ==
  \/ \E cred \in AccountCreds, body \in ListBodies : CreateRecipe(cred, body)
  \/ \E cred \in AccountCreds : DeleteAccount(cred)
  \/ \E id \in {"alice", "bob", "root"} : DeleteUser(RootCred, id)
  \/ \E cred \in AccountCreds : GetMyProfile(cred)

SpecAccount == InitRecipes /\ [][NextAccount]_vars

-----------------------------------------------------------------------------
(* C22: user documents are never removed *)

C22_State ==
  \A i \in RecipeIds :
    recipes[i].exists => users[recipes[i].author].exists

C22_Step == \A u \in UserIds : users[u].exists => users'[u].exists

\* C22: no request removes a stored user document, and in every reachable
\* state the author of each stored recipe is a stored user.
C22_UsersAreNeverRemoved == []C22_State /\ [][C22_Step]_vars

-----------------------------------------------------------------------------
(* SpecReset: password resets whose letter may fail to be sent, and reset  *)
(* requests with every token value, mailed or not.                         *)

NextReset ==
  \/ \E delivered \in BOOLEAN : ForgotPassword("alice", delivered)
  \/ \E n \in 1..(MaxNonce + 1), pw \in Passwords : ResetPassword(n, pw)
  \/ \E pw \in Passwords : Login("alice", pw, FALSE)
  \/ Tick

SpecReset == InitAuth /\ [][NextReset]_vars

-----------------------------------------------------------------------------
(* C23: a reset letter that cannot be sent *)

\* the reset tokens a letter brought to user u
MailedResets(u) == {m.token : m \in {l \in mail : l.kind = "reset" /\ l.to = u}}

C23_State ==
  \A u \in UserIds :
    (users[u].exists /\ users[u].passwordResetToken # 0)
      => \E n \in MailedResets(u) : users[u].passwordResetToken = Sha256(n)

C23_Step ==
  /\ (Request /\ resp'.op = "forgotPassword" /\ mail' = mail /\ users[resp'.account].exists)
       => /\ resp'.code = 500
          /\ users'[resp'.account].passwordResetToken = 0
          /\ users'[resp'.account].passwordResetExpires = -1
  /\ (Request /\ resp'.op = "resetPassword" /\ resp'.code = 200)
       => \E n \in MailedResets(resp'.account) :
            /\ users[resp'.account].passwordResetToken = Sha256(n)
            /\ users[resp'.account].passwordResetExpires > now

\* C23: a forgot-password request whose e-mail cannot be sent fails and leaves
\* no reset token and no expiry stored, so every token reset-password redeems
\* is one that a letter delivered.
C23_FailedLetterLeavesNoToken == []C23_State /\ [][C23_Step]_vars

\* a letter failed after an earlier one was delivered: the stored token is gone
C23_Witness ==
  /\ resp.op = "forgotPassword" /\ resp.code = 500
  /\ MailedResets(resp.account) # {}
  /\ users[resp.account].passwordResetToken = 0
  /\ nonce >= 2

-----------------------------------------------------------------------------
(* Requests step by step: each await of a handler is a point where other   *)
(* requests run.                                                           *)

\* document.save() of a loaded document sends the paths whose value differs
\* from what was loaded; the other paths keep what is stored
WriteModified(stored, loaded, saved) ==
  [f \in DOMAIN stored |-> IF saved[f] # loaded[f] THEN saved[f] ELSE stored[f]]

Answer(s, code) == [inflight EXCEPT ![s].stage = "done", ![s].code = code]

FlightResp(f, code) ==
  [NoResp EXCEPT !.op = f.op, !.code = code, !.cred = f.cred, !.user = f.user,
                 !.ran = TRUE, !.id = f.id, !.arg = f.arg]

\* GET /api/recipes/:id up to the await of incrementViews: findById and the
\* visibility check
GetRecipeLoad(s, cred, id) ==
  /\ inflight[s].stage = "idle"
  /\ LET r == recipes[id]
         reqUser == PublicReqUser
         f == [NoFlight EXCEPT !.op = "getRecipe", !.cred = cred, !.user = reqUser,
                               !.id = id, !.doc = r, !.v = versions[id]]
         code == IF ~r.exists THEN 404
                 ELSE IF /\ r.visibility = "private"
                         /\ \/ reqUser = NoUser
                            \/ (r.author # reqUser /\ users[reqUser].role # "admin")
                   THEN 403
                 ELSE IF reqUser = NoUser \/ r.author # reqUser THEN 0
                 ELSE 200
     IN IF code = 0
        THEN /\ inflight' = [inflight EXCEPT ![s] = [f EXCEPT !.stage = "loaded"]]
             /\ UNCHANGED resp
        ELSE /\ inflight' = [inflight EXCEPT ![s] = [f EXCEPT !.stage = "done", !.code = code]]
             /\ resp' = FlightResp(f, code)
  /\ UNCHANGED <<users, recipes, categories, nextRecipe, now, tokens, nonce, mail,
                 versions>>

\* incrementViews: the save of the copy loaded before, and the response
GetRecipeSave(s) ==
  /\ inflight[s].stage = "loaded" /\ inflight[s].op = "getRecipe"
  /\ LET f == inflight[s] IN
     /\ recipes' = [recipes EXCEPT ![f.id] =
                      WriteModified(recipes[f.id], f.doc, IncrementViews(f.doc))]
     /\ inflight' = Answer(s, 200)
     /\ resp' = FlightResp(f, 200)
  /\ UNCHANGED <<users, categories, nextRecipe, now, tokens, nonce, mail, versions>>

-----------------------------------------------------------------------------
(* SpecViews: concurrent views of stored recipes *)

NextViews ==
  \/ \E body \in ListBodies : CreateRecipe(Bearer(SessionToken("alice")), body)
  \/ \E s \in Slots, cred \in ReadCreds, id \in RecipeIds : GetRecipeLoad(s, cred, id)
  \/ \E s \in Slots : GetRecipeSave(s)

SpecViews == InitRecipes /\ [][NextViews]_vars

-----------------------------------------------------------------------------
(* C24: concurrent views *)

\* the view requests on recipe id that were answered 200
Viewed(id) ==
  {s \in Slots : /\ inflight[s].op = "getRecipe" /\ inflight[s].id = id
                 /\ inflight[s].stage = "done" /\ inflight[s].code = 200}

\* C24: once the view requests of non-authors on a recipe have all been
\* answered, its views counter has grown by their number.
C24_NoViewIsLost ==
  (\A s \in Slots : inflight[s].stage # "loaded")
    => \A id \in RecipeIds : recipes[id].exists => recipes[id].views = Cardinality(Viewed(id))

-----------------------------------------------------------------------------
(* Rating requests step by step *)

\* POST /api/recipes/:id/rate up to the await of addRating: protect,
\* validateRating, findById and the author check
RateRecipeLoad(s, cred, id, rating) ==
  /\ inflight[s].stage = "idle"
  /\ LET pr == Protect(cred)
         r == recipes[id]
         f == [NoFlight EXCEPT !.op = "rateRecipe", !.cred = cred, !.user = pr.user,
                               !.id = id, !.doc = r, !.v = versions[id],
                               !.arg = rating]
         code == IF pr.code # 200 THEN pr.code
                 ELSE IF ~ValidateRating(rating) THEN 400
                 ELSE IF ~r.exists THEN 404
                 ELSE IF r.author = pr.user THEN 400
                 ELSE 0
     IN IF code = 0
        THEN /\ inflight' = [inflight EXCEPT ![s] = [f EXCEPT !.stage = "loaded"]]
             /\ UNCHANGED resp
        ELSE /\ inflight' = [inflight EXCEPT ![s] = [f EXCEPT !.stage = "done", !.code = code]]
             /\ resp' = FlightResp(f, code)
  /\ UNCHANGED <<users, recipes, categories, nextRecipe, now, tokens, nonce, mail,
                 versions>>

\* addRating: the save of the copy loaded before, and the response.  The
\* assignment of the filtered list replaces the array when it removed a
\* rating; the update then sets the whole array under the condition that the
\* version key is the loaded one, and a save that finds another version
\* throws.  When the filter removed nothing, whole says whether the update
\* still sets the whole array or only pushes the new rating.  The derived
\* fields are set to what the hooks computed from the copy.
RateRecipeSave(s, whole) ==
  /\ inflight[s].stage = "loaded" /\ inflight[s].op = "rateRecipe"
  /\ LET f == inflight[s]
         stored == recipes[f.id]
         local == AddRating(f.doc, f.user, f.arg)
         written == WriteModified(stored, f.doc, local)
     IN /\ FilterRatings(f.doc.ratings, f.user) # f.doc.ratings => whole
        /\ IF whole /\ versions[f.id] # f.v
           THEN /\ inflight' = Answer(s, 500)
                /\ resp' = FlightResp(f, 500)
                /\ UNCHANGED <<recipes, versions>>
           ELSE /\ recipes' = [recipes EXCEPT ![f.id] =
                                 IF whole THEN written
                                 ELSE [written EXCEPT !.ratings =
                                         Append(stored.ratings,
                                                [user |-> f.user, rating |-> f.arg])]]
                /\ versions' = [versions EXCEPT ![f.id] = @ + 1]
                /\ inflight' = Answer(s, 200)
                /\ resp' = FlightResp(f, 200)
  /\ UNCHANGED <<users, categories, nextRecipe, now, tokens, nonce, mail>>

-----------------------------------------------------------------------------
(* SpecRate: concurrent ratings of one recipe of alice *)

RateCreds == {Bearer(SessionToken(u)) : u \in {"alice", "bob", "carol"}}

NextRate ==
  \/ CreateRecipe(Bearer(SessionToken("alice")),
                  Body("c1", 1, 0, Absent, Absent, AbsentNum))
  \/ \E s \in Slots, cred \in RateCreds, v \in {2, 5} :
       RateRecipeLoad(s, cred, NumRecipes, v)
  \/ \E s \in Slots, whole \in BOOLEAN : RateRecipeSave(s, whole)

SpecRate == InitRating /\ [][NextRate]_vars

-----------------------------------------------------------------------------
(* C25: concurrent ratings *)

RatedBy(r, u) == \E i \in 1..Len(r.ratings) : r.ratings[i].user = u

\* C25: when the rating requests of two distinct users on one recipe have
\* both been answered 200, the stored list holds a rating of each of them and
\* totalRatings counts both.
C25_BothRatingsAreKept ==
  \A s \in Slots, t \in Slots :
    (/\ inflight[s].op = "rateRecipe" /\ inflight[t].op = "rateRecipe"
     /\ inflight[s].stage = "done" /\ inflight[t].stage = "done"
     /\ inflight[s].code = 200 /\ inflight[t].code = 200
     /\ inflight[s].id = inflight[t].id
     /\ inflight[s].user # inflight[t].user)
      => LET r == recipes[inflight[s].id] IN
         /\ RatedBy(r, inflight[s].user) /\ RatedBy(r, inflight[t].user)
         /\ r.totalRatings = 2

-----------------------------------------------------------------------------
(* The admin recount of the category counters *)

\* Recipe.countDocuments({category, status: 'published'})
PublishedIn(c) ==
  Cardinality({i \in RecipeIds : /\ recipes[i].exists /\ recipes[i].category = c
                                 /\ recipes[i].status = "published"})

\* category.updateRecipeCount(): the count of published recipes, then save()
UpdateRecipeCount(cs, c) ==
  SaveCategory(cs, c, [cs[c] EXCEPT !.recipeCount = PublishedIn(c)], FALSE).categories

RECURSIVE UpdateRecipeCountsOf(_, _)
UpdateRecipeCountsOf(cs, todo) ==
  IF todo = {} THEN cs
  ELSE LET c == CHOOSE x \in todo : TRUE
       IN UpdateRecipeCountsOf(UpdateRecipeCount(cs, c), todo \ {c})

\* updateRecipeCounts: every stored category recounts itself
UpdateRecipeCountsHandler ==
  CatOut(200, UpdateRecipeCountsOf(categories, {c \in DOMAIN categories : categories[c].exists}),
         NoCat)

\* PATCH /api/categories/admin/update-recipe-counts: protect, restrictTo,
\* updateRecipeCounts
UpdateRecipeCounts(cred) ==
  /\ LET gate == AdminGate(cred)
         out == IF gate # 200 THEN CatOut(gate, categories, NoCat)
                ELSE UpdateRecipeCountsHandler
     IN /\ categories' = out.categories
        /\ resp' = CatReply("updateRecipeCounts", cred, out, Absent)
  /\ UNCHANGED <<users, recipes, nextRecipe, now, tokens, nonce, mail,
                 inflight, versions>>

-----------------------------------------------------------------------------
(* SpecCount: the category counters under recipe requests and the recount *)

CountCreds == {Bearer(SessionToken(u)) : u \in {"alice", "root"}}

CountBodies ==
  {Body(c, 1, 0, st, Absent, AbsentNum) : c \in {"c1", "c2"}, st \in {Absent, "published"}}

NextCount ==
  \/ \E body \in CountBodies : CreateRecipe(Bearer(SessionToken("alice")), body)
  \/ \E id \in RecipeIds, body \in OwnerUpdates :
       UpdateRecipe(Bearer(SessionToken("alice")), id, body)
  \/ \E id \in RecipeIds : DeleteRecipe(Bearer(SessionToken("alice")), id)
  \/ \E cred \in CountCreds : UpdateRecipeCounts(cred)

SpecCount == InitRecipes /\ [][NextCount]_vars

-----------------------------------------------------------------------------
(* C26: the category counters never go below zero *)

\* C26: every category's stats.recipeCount is at least 0 in every reachable
\* state under recipe create, update and delete requests and the recount.
C26_CountsAreNeverNegative ==
  \A c \in CatIds : categories[c].exists => categories[c].recipeCount >= 0

-----------------------------------------------------------------------------
(* Recipe writes and category deletes step by step *)

Started(s, f) == [inflight EXCEPT ![s] = [f EXCEPT !.stage = "loaded"]]
\* the request is answered and its slot is free again
Refused(s, f, code) == [inflight EXCEPT ![s] = NoFlight]
Finished(s) == [inflight EXCEPT ![s] = NoFlight]

\* POST /api/recipes up to Recipe.create: protect, validateRecipeCreation and
\* the lookup of the category
CreateRecipeCheck(s, cred, body) ==
  /\ inflight[s].stage # "loaded"
  /\ LET pr == Protect(cred)
         f == [NoFlight EXCEPT !.op = "createRecipe", !.cred = cred, !.user = pr.user,
                               !.body = body]
         code == IF pr.code # 200 THEN pr.code
                 ELSE IF ~ValidateRecipeCreation(body) THEN 400
                 ELSE IF ~CategoryExists(body.category) THEN 400
                 ELSE 0
     IN IF code = 0
        THEN inflight' = Started(s, f) /\ UNCHANGED resp
        ELSE inflight' = Refused(s, f, code) /\ resp' = FlightResp(f, code)
  /\ UNCHANGED <<users, recipes, categories, nextRecipe, now, tokens, nonce, mail,
                 versions>>

\* Recipe.create, then the $inc of the category's counter
CreateRecipeCommit(s) ==
  /\ inflight[s].stage = "loaded" /\ inflight[s].op = "createRecipe"
  /\ nextRecipe <= NumRecipes
  /\ LET f == inflight[s]
         ok == SchemaValid(f.body)
         cs == IF ok THEN IncRecipeCount(categories, f.body.category, 1) ELSE categories
         code == IF ok THEN 201 ELSE 400
     IN /\ CountsInRange(cs)
        /\ recipes' = IF ok
                      THEN [recipes EXCEPT ![nextRecipe] = Save(NewRecipe(f.user, f.body))]
                      ELSE recipes
        /\ categories' = cs
        /\ nextRecipe' = IF ok THEN nextRecipe + 1 ELSE nextRecipe
        /\ inflight' = Finished(s)
        /\ resp' = FlightResp(f, code)
  /\ UNCHANGED <<users, now, tokens, nonce, mail, versions>>

\* PATCH /api/recipes/:id up to the writes: protect, checkOwnership,
\* validateRecipeCreation, findById, the owner check and the lookup of the
\* new category
UpdateRecipeCheck(s, cred, id, body) ==
  /\ inflight[s].stage # "loaded"
  /\ LET pr == Protect(cred)
         own == IF pr.code = 200 THEN CheckOwnership(pr.user, recipes[id]) ELSE 0
         r == recipes[id]
         f == [NoFlight EXCEPT !.op = "updateRecipe", !.cred = cred, !.user = pr.user,
                               !.id = id, !.body = body, !.doc = r]
         code == IF pr.code # 200 THEN pr.code
                 ELSE IF own # 200 THEN own
                 ELSE IF ~ValidateRecipeCreation(body) THEN 400
                 ELSE IF ~r.exists THEN 404
                 ELSE IF r.author # pr.user /\ users[pr.user].role # "admin" THEN 403
                 ELSE IF body.category # r.category /\ ~CategoryExists(body.category)
                   THEN 400
                 ELSE 0
     IN IF code = 0
        THEN inflight' = Started(s, f) /\ UNCHANGED resp
        ELSE inflight' = Refused(s, f, code) /\ resp' = FlightResp(f, code)
  /\ UNCHANGED <<users, recipes, categories, nextRecipe, now, tokens, nonce, mail,
                 versions>>

\* the two $inc when the category changes, then findByIdAndUpdate with
\* runValidators
UpdateRecipeCommit(s) ==
  /\ inflight[s].stage = "loaded" /\ inflight[s].op = "updateRecipe"
  /\ LET f == inflight[s]
         moved == f.body.category # f.doc.category
         cs == IF moved
               THEN IncRecipeCount(IncRecipeCount(categories, f.doc.category, -1),
                                   f.body.category, 1)
               ELSE categories
         ok == SchemaValid(f.body)
         code == IF ok THEN 200 ELSE 400
     IN /\ CountsInRange(cs)
        /\ categories' = cs
        /\ recipes' = IF ok /\ recipes[f.id].exists
                      THEN [recipes EXCEPT ![f.id] = ApplyUpdate(@, f.body)]
                      ELSE recipes
        /\ inflight' = Finished(s)
        /\ resp' = FlightResp(f, code)
  /\ UNCHANGED <<users, nextRecipe, now, tokens, nonce, mail, versions>>

\* DELETE /api/categories/:id up to the writes: protect, restrictTo, findById,
\* the count of the recipes in the category and the look at its children
DeleteCategoryCheck(s, cred, id) ==
  /\ inflight[s].stage # "loaded"
  /\ LET gate == AdminGate(cred)
         c == categories[id]
         f == [NoFlight EXCEPT !.op = "deleteCategory", !.cred = cred,
                               !.user = Protect(cred).user,
                               !.cat = id, !.parent = c.parent]
         code == IF gate # 200 THEN gate
                 ELSE IF ~c.exists THEN 404
                 ELSE IF Cardinality(RecipesOf(id)) > 0 THEN 400
                 ELSE IF Len(c.children) > 0 THEN 400
                 ELSE 0
     IN IF code = 0
        THEN inflight' = Started(s, f) /\ UNCHANGED resp
        ELSE inflight' = Refused(s, f, code)
             /\ resp' = [FlightResp(f, code) EXCEPT !.cat = id]
  /\ UNCHANGED <<users, recipes, categories, nextRecipe, now, tokens, nonce, mail,
                 versions>>

\* the $pull from the parent's children, then findByIdAndDelete
DeleteCategoryCommit(s) ==
  /\ inflight[s].stage = "loaded" /\ inflight[s].op = "deleteCategory"
  /\ LET f == inflight[s]
         pulled == IF f.parent # NoCat /\ f.parent \in DOMAIN categories
                      /\ categories[f.parent].exists
                   THEN [categories EXCEPT ![f.parent].children = Pull(@, f.cat)]
                   ELSE categories
     IN /\ categories' = [pulled EXCEPT ![f.cat] = [NoCategory EXCEPT !.deleted = TRUE]]
        /\ inflight' = Finished(s)
        /\ resp' = [FlightResp(f, 204) EXCEPT !.cat = f.cat]
  /\ UNCHANGED <<users, recipes, nextRecipe, now, tokens, nonce, mail, versions>>

-----------------------------------------------------------------------------
(* SpecCategoryRace: recipe writes that run while a category is deleted *)

RaceBodies ==
  {Body(c, 1, 0, Absent, Absent, AbsentNum) : c \in {"c1", "c2"}}

NextCategoryRace ==
  \/ \E s \in Slots, body \in RaceBodies :
       CreateRecipeCheck(s, Bearer(SessionToken("alice")), body)
  \/ \E s \in Slots : CreateRecipeCommit(s)
  \/ \E s \in Slots, id \in RecipeIds, body \in RaceBodies :
       UpdateRecipeCheck(s, Bearer(SessionToken("alice")), id, body)
  \/ \E s \in Slots : UpdateRecipeCommit(s)
  \/ \E s \in Slots, id \in {"c1", "c2"} :
       DeleteCategoryCheck(s, Bearer(SessionToken("root")), id)
  \/ \E s \in Slots : DeleteCategoryCommit(s)

SpecCategoryRace == InitRecipes /\ [][NextCategoryRace]_vars

-----------------------------------------------------------------------------
(* C27: recipes refer to stored categories *)

\* C27: in every reachable state, with recipe writes and category deletes
\* interleaved at their awaits, each stored recipe's category is a stored
\* category.
C27_RecipeCategoryExists ==
  \A i \in RecipeIds : recipes[i].exists => CategoryExists(recipes[i].category)

-----------------------------------------------------------------------------
(* SpecRoles: role changes asked for by users, moderators and admins *)

RoleCreds == {Bearer(SessionToken(u)) : u \in {"alice", "bob", "root"}}

NextRoles ==
  \/ \E cred \in RoleCreds, id \in {"alice", "bob"}, status \in {Absent, "suspended"},
        role \in {"user", "moderator", "admin"} :
       UpdateUserRole(cred, id, role, status)
  \/ \E cred \in RoleCreds : GetMyProfile(cred)

SpecRoles == InitRecipes /\ [][NextRoles]_vars

-----------------------------------------------------------------------------
(* C28: who may change a role *)

C28_Step ==
  \A u \in UserIds :
    (users[u].exists /\ users'[u].exists /\ users'[u].role # users[u].role)
      => /\ resp'.user # NoUser
         /\ users[resp'.user].role = "admin"

\* C28: a request changes a user's role only when the principal making it is
\* an admin; no other principal makes anyone an admin.
C28_OnlyAdminsChangeRoles == [][C28_Step]_vars

-----------------------------------------------------------------------------
(* C29: a suspended account stays out *)

C29_Step ==
  /\ \A u \in UserIds :
       (/\ users[u].exists /\ users[u].accountStatus \in {"suspended", "inactive"}
        /\ users'[u].exists /\ users'[u].accountStatus = "active")
         => resp'.op = "updateUserRole" /\ resp'.code = 200 /\ resp'.account = u
  /\ (Request /\ resp'.op \in ProtectedOps /\ resp'.ran)
       => users[resp'.user].accountStatus = "active"

\* C29: an account the admin set to suspended or inactive becomes active
\* again only by a role update of the admin, never by a verification, login
\* or password request, and protect lets no request of it through meanwhile.
C29_SuspendedStaysSuspended == [][C29_Step]_vars

-----------------------------------------------------------------------------
(* C30: an update that fails *)

C30_Step ==
  (resp'.op = "updateRecipe" /\ resp'.code >= 400)
    => \A c \in CatIds : categories'[c].recipeCount = categories[c].recipeCount

\* C30: an updateRecipe request that ends in an error leaves every category's
\* stats.recipeCount as it was before the request.
C30_FailedUpdateKeepsCounts == [][C30_Step]_vars

====
